---------------------------- MODULE Spec2Model ----------------------------
(***************************************************************************)
(* A model of dock-substrate-common's bounded currency symbols:            *)
(*   libs/utils/src/bounded_string.rs        BoundedString                 *)
(*   libs/price-provider/src/currency_pair.rs                              *)
(*        CurrencySymbolPair, BoundedCurrencySymbolPair                    *)
(*                                                                         *)
(* A Rust `String`/`&str` is modelled as what it is: a sequence of bytes   *)
(* holding well-formed UTF-8.  SCALE encoding is modelled byte for byte    *)
(* (compact length prefix, then the payload), and decoding is a parser of  *)
(* those bytes.                                                            *)
(***************************************************************************)
EXTENDS Integers, Sequences, FiniteSets, TLC

VARIABLES
    last,   \* the operation that ran last
    arg,    \* the plain (unbounded) value last handed to / produced by an operation
    ceil,   \* the MaxBytesLen type parameter the last operation ran under
    out,    \* the Result the last operation returned
    bval,   \* the bounded value held by the caller: None or Some(value)
    wire,   \* the bytes last produced by encode (or received): None or Some(bytes)
    calls,  \* the arguments the caller's closure was called with, in order
    operators, \* pallet storage Operators: the set of <<pair, account>> keys
    prices, \* pallet storage Prices: a function from pairs to price records
    now,    \* frame_system's current block number
    events, \* the events deposited by the last dispatched call
    version, \* pallet storage StorageVersion as stored: None or Some(release)
    v1store \* the storage items of the V1 pallet: each None or Some(value)

\* What the bounded-string operations never touch.
palletVars == <<operators, prices, now, events, version, v1store>>

vars ==
    <<last, arg, ceil, out, bval, wire, calls, operators, prices, now, events,
      version, v1store>>

----------------------------------------------------------------------------
(* Bounds of the model. *)

\* Longest string, in characters, enumerated over Alphabet.
MaxChars == 2

\* Ceilings 0..MaxCeiling are tried besides the prefix-boundary ceilings.
MaxCeiling == 4

\* Repeated-character strings are tried with lengths within Slack of each
\* length where the compact prefix changes width.
Slack == 1

----------------------------------------------------------------------------
(* Option and Result values. *)

None == [some |-> FALSE]

Some(v) == [some |-> TRUE, val |-> v]

Ok(v) == [ok |-> TRUE, val |-> v]

Err(e) == [ok |-> FALSE, err |-> e]

\* Option::ok_or(err) after bool::then_some(v)
ThenSomeOkOr(cond, v, e) == IF cond THEN Ok(v) ELSE Err(e)

----------------------------------------------------------------------------
(* Strings: UTF-8 byte sequences. *)

\* char::encode_utf8: the UTF-8 bytes of one code point.
Utf8(cp) ==
    IF cp < 128 THEN <<cp>>
    ELSE IF cp < 2048 THEN <<192 + (cp \div 64), 128 + (cp % 64)>>
    ELSE IF cp < 65536 THEN
        <<224 + (cp \div 4096), 128 + ((cp \div 64) % 64), 128 + (cp % 64)>>
    ELSE <<240 + (cp \div 262144), 128 + ((cp \div 4096) % 64),
           128 + ((cp \div 64) % 64), 128 + (cp % 64)>>

\* The code points used to build strings: 'A', 'B' (one byte each) and the
\* eagle emoji U+1F985 of the tests (four bytes).
Alphabet == {65, 66, 129413}

RECURSIVE AsBytes(_)
\* str::as_bytes of the string made of the code points cps.
AsBytes(cps) ==
    IF cps = <<>> THEN <<>> ELSE Utf8(Head(cps)) \o AsBytes(Tail(cps))

\* "a".repeat(n)
Repeat(n) == [i \in 1..n |-> 97]

IsCont(b) == b >= 128 /\ b < 192

\* Width of the sequence a lead byte announces; 0 for a byte that leads nothing.
LeadWidth(b) ==
    IF b < 128 THEN 1
    ELSE IF b >= 194 /\ b < 224 THEN 2
    ELSE IF b >= 224 /\ b < 240 THEN 3
    ELSE IF b >= 240 /\ b < 245 THEN 4
    ELSE 0

\* core::str::from_utf8(bytes).is_ok(), up to the second-byte range rules.
IsUtf8(bytes) ==
    \A i \in 1..Len(bytes) :
        IF IsCont(bytes[i])
        THEN \E w \in 1..3 :
                /\ i - w >= 1
                /\ LeadWidth(bytes[i - w]) > w
                /\ \A k \in 1..(w - 1) : IsCont(bytes[i - k])
        ELSE /\ LeadWidth(bytes[i]) # 0
             /\ i + LeadWidth(bytes[i]) - 1 <= Len(bytes)
             /\ \A k \in 1..(LeadWidth(bytes[i]) - 1) : IsCont(bytes[i + k])

\* str::chars().count(): one character per non-continuation byte.
CharCount(bytes) == Cardinality({i \in 1..Len(bytes) : ~IsCont(bytes[i])})

----------------------------------------------------------------------------
(* SCALE codec: Compact<u32> and length-prefixed strings. *)

\* n as k little-endian bytes
LE(n, k) == [i \in 1..k |-> (n \div (256 ^ (i - 1))) % 256]

\* little-endian bytes read back as a number
FromLE(bytes) ==
    IF Len(bytes) = 1 THEN bytes[1]
    ELSE IF Len(bytes) = 2 THEN bytes[1] + 256 * bytes[2]
    ELSE bytes[1] + 256 * bytes[2] + 65536 * bytes[3] + 16777216 * bytes[4]

\* Compact(n).encoded_size(): CompactLen::compact_len for u32
CompactLen(n) ==
    IF n < 64 THEN 1
    ELSE IF n < 16384 THEN 2
    ELSE IF n < 1073741824 THEN 4
    ELSE 5

\* Compact(n).encode() for u32
CompactEncode(n) ==
    IF n < 64 THEN <<n * 4>>
    ELSE IF n < 16384 THEN LE(n * 4 + 1, 2)
    ELSE IF n < 1073741824 THEN LE(n * 4 + 2, 4)
    ELSE <<3>> \o LE(n, 4)

\* Compact::<u32>::decode: Ok([n, rest]) or Err.
CompactDecode(input) ==
    IF Len(input) = 0 THEN Err("Not enough data to fill buffer")
    ELSE LET mode == input[1] % 4 IN
         IF mode = 0 THEN Ok([n |-> input[1] \div 4, rest |-> Tail(input)])
         ELSE IF mode = 1 THEN
            IF Len(input) < 2 THEN Err("Not enough data to fill buffer")
            ELSE LET x == FromLE(SubSeq(input, 1, 2)) \div 4 IN
                 IF x > 63 /\ x <= 16383
                 THEN Ok([n |-> x, rest |-> SubSeq(input, 3, Len(input))])
                 ELSE Err("out of range decoding Compact<u32>")
         ELSE IF mode = 2 THEN
            IF Len(input) < 4 THEN Err("Not enough data to fill buffer")
            ELSE LET x == (input[1] \div 4) + 64 * input[2]
                          + 16384 * input[3] + 4194304 * input[4] IN
                 IF x > 16383
                 THEN Ok([n |-> x, rest |-> SubSeq(input, 5, Len(input))])
                 ELSE Err("out of range decoding Compact<u32>")
         ELSE IF input[1] \div 4 # 0
         THEN Err("unexpected prefix decoding Compact<u32>")
         ELSE IF Len(input) < 5 THEN Err("Not enough data to fill buffer")
         \* a five-byte length is at least 2^30 (top byte >= 64) or out of
         \* range; no input of the model carries 2^30 payload bytes.
         ELSE IF input[5] >= 64 THEN Err("Not enough data to decode vector")
         ELSE Err("out of range decoding Compact<u32>")

\* <str as Encode>::encode: compact byte length, then the UTF-8 bytes.
EncodeString(s) == CompactEncode(Len(s)) \o s

\* Encode::encoded_size of a string: the number of bytes encode writes.
EncodedSize(s) == Len(EncodeString(s))

\* <String as Decode>::decode: Ok([val, rest]) or Err.
DecodeString(input) ==
    LET len == CompactDecode(input) IN
    IF ~len.ok THEN len
    ELSE IF Len(len.val.rest) < len.val.n
    THEN Err("Not enough data to decode vector")
    ELSE LET bytes == SubSeq(len.val.rest, 1, len.val.n) IN
         IF IsUtf8(bytes)
         THEN Ok([val |-> bytes,
                  rest |-> SubSeq(len.val.rest, len.val.n + 1, Len(len.val.rest))])
         ELSE Err("Invalid utf8 sequence")


----------------------------------------------------------------------------
(* libs/utils/src/bounded_string.rs *)

\* BoundedStringConversionError::InvalidStringByteLen
InvalidStringByteLen == "InvalidStringByteLen"

\* From<BoundedStringConversionError> for &'static str (and so for
\* codec::Error and the serde custom error, which carry that text).
ErrorText(e) ==
    IF e = InvalidStringByteLen
    THEN "The string byte size exceeds max allowed"
    ELSE e

\* Mutant: the length prefix is left out of the accounting.
MaxEncodedLen_NoPrefix(MaxBytesLen) == MaxBytesLen

\* Mutant: the prefix is accounted as a fixed-width u32.
MaxEncodedLen_FixedPrefix(MaxBytesLen) == 4 + MaxBytesLen

\* <BoundedString as MaxEncodedLen>::max_encoded_len
MaxEncodedLen(MaxBytesLen) == CompactLen(MaxBytesLen) + MaxBytesLen

\* Mutant: the comparison is turned around.
New_Flipped(str, MaxBytesLen) ==
    ThenSomeOkOr(EncodedSize(str) >= MaxEncodedLen(MaxBytesLen),
                 [inner |-> str, max |-> MaxBytesLen],
                 InvalidStringByteLen)

\* BoundedString::new
New(str, MaxBytesLen) ==
    ThenSomeOkOr(EncodedSize(str) <= MaxEncodedLen(MaxBytesLen),
                 [inner |-> str, max |-> MaxBytesLen],
                 InvalidStringByteLen)

\* BoundedString::into_inner
IntoInner(b) == b.inner

\* A function value (a fn item or a closure) is a record naming its code,
\* with what it captured: BoundedString::new carries its MaxBytesLen.
Closure(name) == [fn |-> name]

NewFn(MaxBytesLen) == [fn |-> "BoundedString::new", max |-> MaxBytesLen]

\* Calling a function value: the library functions passed around by the
\* code, and the caller-supplied closures the operations are driven with.
Call(f, x) ==
    CASE f.fn = "BoundedString::new" -> New(x, f.max)
      [] f.fn = "BoundedString::into_inner" -> IntoInner(x)
      [] f.fn = "id" -> x
      [] f.fn = "dup" -> x \o x
      [] f.fn = "push_emoji" -> x \o Utf8(129413)
      [] f.fn = "clear" -> <<>>
      [] f.fn = "ok_id" -> Ok(x)
      [] f.fn = "ok_dup" -> Ok(x \o x)
      [] f.fn = "ok_push_emoji" -> Ok(x \o Utf8(129413))
      [] f.fn = "ok_clear" -> Ok(<<>>)
      [] f.fn = "fail" -> Err("UserError")
      [] f.fn = "count" -> x \o <<48 + Len(f.seen)>>
      [] f.fn = "ok_count" -> Ok(x \o <<48 + Len(f.seen)>>)
      [] f.fn = "only_A" -> IF x = <<65>> THEN Ok(x) ELSE Err([rejected |-> x])
      [] f.fn = "fail_second" ->
            IF Len(f.seen) = 0 THEN Ok(x) ELSE Err([rejected |-> x])

\* An FnMut closure that captured mutable state: the arguments it has been
\* called with so far.  "count" appends the digit of the number of earlier
\* calls, "only_A" rejects every string but "A", "fail_second" rejects from
\* its second call on.
Stateful(name) == [fn |-> name, seen |-> <<>>]

\* The closure after it was called with x: its captured state has moved on.
Called(f, x) ==
    IF "seen" \in DOMAIN f THEN [f EXCEPT !.seen = Append(@, x)] ELSE f

\* Mutant: the mapped string is wrapped without being validated.
Map_Unchecked(b, f) == Ok([inner |-> Call(f, IntoInner(b)), max |-> b.max])

\* BoundedString::map
Map(b, f) == New(Call(f, IntoInner(b)), b.max)

\* BoundedString::translate
Translate(b, f) ==
    LET str == Call(f, IntoInner(b)) IN
    IF ~str.ok THEN str ELSE New(str.val, b.max)

\* <BoundedString as Default>::default with S = String
DefaultBounded(MaxBytesLen) == [inner |-> <<>>, max |-> MaxBytesLen]

\* <BoundedString as TryFrom<String>>::try_from
TryFromString(str, MaxBytesLen) == New(str, MaxBytesLen)

\* Mutant: the payload is written without its length prefix.
EncodeBounded_Raw(b) == b.inner

\* <BoundedString as Encode>::encode
EncodeBounded(b) == EncodeString(b.inner)

\* Mutant: the decoded string is trusted, the size check not run again.
DecodeBounded_Trusting(input, MaxBytesLen) ==
    LET decoded == DecodeString(input) IN
    IF ~decoded.ok THEN decoded
    ELSE Ok([val |-> [inner |-> decoded.val.val, max |-> MaxBytesLen],
             rest |-> decoded.val.rest])

\* <BoundedString as Decode>::decode: Ok([val, rest]) or Err(codec error)
DecodeBounded(input, MaxBytesLen) ==
    LET decoded == DecodeString(input) IN
    IF ~decoded.ok THEN decoded
    ELSE LET made == New(decoded.val.val, MaxBytesLen) IN
         IF made.ok
         THEN Ok([val |-> made.val, rest |-> decoded.val.rest])
         ELSE Err(ErrorText(made.err))

\* <BoundedString as Deserialize>::deserialize, given what S::deserialize
\* returned
Deserialize(deserialized, MaxBytesLen) ==
    IF ~deserialized.ok THEN deserialized
    ELSE LET made == New(deserialized.val, MaxBytesLen) IN
         IF made.ok THEN made ELSE Err(ErrorText(made.err))

----------------------------------------------------------------------------
(* libs/price-provider/src/currency_pair.rs *)

\* CurrencySymbolPair::new
NewPair(from, to) == [from |-> from, to |-> to]

\* Mutant: the closure is applied to the to symbol.
MapOverFrom_WrongSlot(pair, map) == NewPair(Call(map, pair.to), pair.to)

\* CurrencySymbolPair::map_over_from
MapOverFrom(pair, map) == NewPair(Call(map, pair.from), pair.to)

\* CurrencySymbolPair::map_over_to
MapOverTo(pair, map) == NewPair(pair.from, Call(map, pair.to))

\* CurrencySymbolPair::translate_over_from
TranslateOverFrom(pair, translate) ==
    LET r == Call(translate, pair.from) IN
    IF r.ok THEN Ok(NewPair(r.val, pair.to)) ELSE r

\* Mutant: a failed translation leaves the pair as it was instead of failing.
TranslateOverTo_KeepsOnError(pair, translate) ==
    LET r == Call(translate, pair.to) IN
    IF r.ok THEN Ok(NewPair(pair.from, r.val)) ELSE Ok(pair)

\* CurrencySymbolPair::translate_over_to
TranslateOverTo(pair, translate) ==
    LET r == Call(translate, pair.to) IN
    IF r.ok THEN Ok(NewPair(pair.from, r.val)) ELSE r

\* Mutant: only the from symbol is validated.
TryFromPair_FromOnly(pair, MaxSymBytesLen) ==
    LET first == TranslateOverFrom(pair, NewFn(MaxSymBytesLen)) IN
    IF ~first.ok THEN first
    ELSE Ok(NewPair(first.val.from,
                    [inner |-> first.val.to, max |-> MaxSymBytesLen]))

\* <BoundedCurrencySymbolPair as TryFrom<CurrencySymbolPair>>::try_from
TryFromPair(pair, MaxSymBytesLen) ==
    LET first == TranslateOverFrom(pair, NewFn(MaxSymBytesLen)) IN
    IF ~first.ok THEN first
    ELSE TranslateOverTo(first.val, NewFn(MaxSymBytesLen))

\* Mutant: the fields are written to first.
EncodePair_ToFirst(bpair) == EncodeBounded(bpair.to) \o EncodeBounded(bpair.from)

\* <BoundedCurrencySymbolPair as Encode>::encode_to: the derived encoding of
\* the inner CurrencySymbolPair, its fields in declaration order.
EncodePair(bpair) == EncodeBounded(bpair.from) \o EncodeBounded(bpair.to)

\* The derived <CurrencySymbolPair<String, String> as Decode>::decode.
DecodePlainPair(input) ==
    LET from == DecodeString(input) IN
    IF ~from.ok THEN from
    ELSE LET to == DecodeString(from.val.rest) IN
         IF ~to.ok THEN to
         ELSE Ok([val |-> NewPair(from.val.val, to.val.val),
                  rest |-> to.val.rest])

\* <BoundedCurrencySymbolPair as Decode>::decode
DecodePair(input, MaxSymBytesLen) ==
    LET plain == DecodePlainPair(input) IN
    IF ~plain.ok THEN plain
    ELSE LET made == TryFromPair(plain.val.val, MaxSymBytesLen) IN
         IF made.ok
         THEN Ok([val |-> made.val, rest |-> plain.val.rest])
         ELSE Err(ErrorText(made.err))

\* Mutant: one slot only is accounted.
PairMaxEncodedLen_OneSlot(MaxSymBytesLen) == MaxEncodedLen(MaxSymBytesLen)

\* <BoundedCurrencySymbolPair as MaxEncodedLen>::max_encoded_len
PairMaxEncodedLen(MaxSymBytesLen) ==
    LET from_max_encoded_len == MaxEncodedLen(MaxSymBytesLen)
        to_max_encoded_len == MaxEncodedLen(MaxSymBytesLen)
    IN  from_max_encoded_len + to_max_encoded_len

\* Mutant: the slots come out exchanged.
FromBoundedPair_Swapped(bpair) ==
    NewPair(IntoInner(bpair.to), IntoInner(bpair.from))

\* <CurrencySymbolPair as From<BoundedCurrencySymbolPair>>::from
FromBoundedPair(bpair) ==
    MapOverTo(MapOverFrom(bpair, Closure("BoundedString::into_inner")),
              Closure("BoundedString::into_inner"))

----------------------------------------------------------------------------
(* The inputs the operations are driven with. *)

\* All sequences of at most n elements of chars.
CharSeqs(chars, n) == UNION {[1..k -> chars] : k \in 0..n}

\* Every string of at most MaxChars characters over Alphabet.
ShortStrs == {AsBytes(c) : c \in CharSeqs(Alphabet, MaxChars)}

\* Lengths of the repeated-character strings: the lengths of the tests
\* (10, 1000) and those around 64 and 16384, where the compact prefix grows.
RepeatLens == {10, 1000} \cup {b + d : b \in {64, 16384}, d \in (0 - Slack)..Slack}

StrInputs == ShortStrs \cup {Repeat(n) : n \in RepeatLens}

\* The values of MaxBytesLen the operations are instantiated with.
Ceilings == (0..MaxCeiling) \cup {10, 1000, 63, 64, 16383, 16384}

\* Currency symbols: at most MaxChars characters of 'A', 'B', or the emoji.
Syms == {AsBytes(c) : c \in CharSeqs({65, 66}, MaxChars)} \cup {Utf8(129413)}

PairInputs == {NewPair(f, t) : f \in Syms, t \in Syms}

\* The closures handed to map: identity, s + s, s + emoji, and one that
\* returns the empty string.
MapFns == {Closure("id"), Closure("dup"), Closure("push_emoji"), Closure("clear")}

\* The fallible closures handed to translate: the above wrapped in Ok, and
\* one that fails.
TranslateFns == {Closure("ok_id"), Closure("ok_dup"), Closure("ok_push_emoji"),
                 Closure("ok_clear"), Closure("fail")}

\* e and e without its last byte
Truncations(e) == {e} \cup (IF Len(e) > 0 THEN {SubSeq(e, 1, Len(e) - 1)} ELSE {})

\* Bytes a decoder may be handed: encodings of strings, cut-off encodings,
\* ill-formed UTF-8, and length prefixes that are cut off or out of range.
RawWires ==
    UNION {Truncations(EncodeString(s)) : s \in ShortStrs}
    \cup {<<8, 255, 254>>, <<1>>, <<5, 0>>, <<2, 0, 0, 0>>, <<3, 0, 0, 0, 64>>, <<7>>}

RawPairWires ==
    UNION {Truncations(EncodeString(p.from) \o EncodeString(p.to)) : p \in PairInputs}
    \cup {<<4, 65, 8, 255, 254>>}

IsBoundedString(v) == "inner" \in DOMAIN v

IsBoundedPair(v) == "from" \in DOMAIN v

----------------------------------------------------------------------------
(* The state machine: a caller applying the operations. *)

Init ==
    /\ last = "init"
    /\ arg = None
    /\ ceil = 0
    /\ out = None
    /\ bval = None
    /\ wire = None
    /\ calls = <<>>
    /\ operators = {}
    /\ prices = [k \in {} |-> None]
    /\ now = 0
    /\ events = <<>>
    /\ version = None
    /\ v1store = [Price |-> None, ContractConfigStore |-> None,
                  LastPriceUpdateAt |-> None, PriceUpdateFreq |-> None]

\* Each call sequence starts from the initial state: the operations keep
\* no state of their own between sequences.
Idle == last = "init"

\* A validating constructor ran on `plain` under ceiling M and returned r.
Constructed(op, plain, M, r) ==
    /\ last' = op
    /\ arg' = plain
    /\ ceil' = M
    /\ out' = r
    /\ bval' = (IF r.ok THEN Some(r.val) ELSE None)
    /\ wire' = None
    /\ UNCHANGED <<calls, palletVars>>

\* BoundedString::<M, _>::new(s)
NewStep ==
    /\ Idle
    /\ \E s \in StrInputs, M \in Ceilings :
            Constructed("new", Some(s), M, New(s, M))

\* BoundedString::<M, String>::try_from(s)
TryFromStringStep ==
    /\ Idle
    /\ \E s \in StrInputs, M \in Ceilings :
            Constructed("try_from", Some(s), M, TryFromString(s, M))

\* BoundedString::<M, String>::default()
DefaultStep ==
    /\ Idle
    /\ \E M \in Ceilings :
            Constructed("default", None, M, Ok(DefaultBounded(M)))

\* BoundedString::<M, _>::deserialize, S::deserialize yielding a string or
\* an error of its own
DeserializeStep ==
    /\ Idle
    /\ \E M \in Ceilings,
           d \in {Ok(s) : s \in StrInputs} \cup {Err("invalid type")} :
            Constructed("deserialize", IF d.ok THEN Some(d.val) ELSE None, M,
                        Deserialize(d, M))

Fresh == last \in {"new", "try_from", "default", "deserialize"}

\* bounded.map(f)
MapStep ==
    /\ Fresh
    /\ bval.some
    /\ \E f \in MapFns :
        Constructed("map", Some(Call(f, IntoInner(bval.val))), bval.val.max,
                    Map(bval.val, f))

\* bounded.translate(f)
TranslateStep ==
    /\ Fresh
    /\ bval.some
    /\ \E f \in TranslateFns :
        LET given == Call(f, IntoInner(bval.val)) IN
        Constructed("translate", IF given.ok THEN Some(given.val) ELSE None,
                    bval.val.max,
                    Translate(bval.val, f))

\* bounded.into_inner()
IntoInnerStep ==
    /\ Fresh
    /\ bval.some
    /\ last' = "into_inner"
    /\ arg' = Some(IntoInner(bval.val))
    /\ out' = Ok(IntoInner(bval.val))
    /\ bval' = None
    /\ wire' = None
    /\ UNCHANGED ceil
    /\ UNCHANGED <<calls, palletVars>>

\* bounded.encode()
EncodeStep ==
    /\ Fresh
    /\ bval.some
    /\ last' = "encode"
    /\ wire' = Some(EncodeBounded(bval.val))
    /\ out' = Ok(EncodeBounded(bval.val))
    /\ UNCHANGED <<arg, ceil, bval>>
    /\ UNCHANGED <<calls, palletVars>>

\* Bytes arrive from elsewhere.
ReceiveStep ==
    /\ Idle
    /\ \E w \in RawWires :
            /\ last' = "recv"
            /\ wire' = Some(w)
            /\ arg' = None
            /\ out' = None
            /\ bval' = None
            /\ UNCHANGED ceil
            /\ UNCHANGED <<calls, palletVars>>
    /\ UNCHANGED <<calls, palletVars>>

\* BoundedString::<M2, String>::decode(&mut &wire[..])
DecodeStep ==
    /\ last \in {"encode", "recv"}
    /\ \E M2 \in Ceilings :
        LET r == DecodeBounded(wire.val, M2) IN
        /\ last' = "decode"
        /\ ceil' = M2
        /\ out' = (IF r.ok THEN Ok(r.val.val) ELSE r)
        /\ UNCHANGED <<arg, bval, wire>>
        /\ UNCHANGED <<calls, palletVars>>

\* BoundedCurrencySymbolPair::<_, _, M>::try_from(pair)
TryFromPairStep ==
    /\ Idle
    /\ \E p \in PairInputs, M \in Ceilings :
            Constructed("pair_try_from", Some(p), M, TryFromPair(p, M))

\* bounded_pair.encode()
EncodePairStep ==
    /\ last = "pair_try_from"
    /\ bval.some
    /\ last' = "pair_encode"
    /\ wire' = Some(EncodePair(bval.val))
    /\ out' = Ok(EncodePair(bval.val))
    /\ UNCHANGED <<arg, ceil, bval>>
    /\ UNCHANGED <<calls, palletVars>>

ReceivePairStep ==
    /\ Idle
    /\ \E w \in RawPairWires :
            /\ last' = "pair_recv"
            /\ wire' = Some(w)
            /\ arg' = None
            /\ out' = None
            /\ bval' = None
            /\ UNCHANGED ceil
            /\ UNCHANGED <<calls, palletVars>>
    /\ UNCHANGED <<calls, palletVars>>

\* BoundedCurrencySymbolPair::<String, String, M2>::decode(&mut &wire[..])
DecodePairStep ==
    /\ last \in {"pair_encode", "pair_recv"}
    /\ \E M2 \in Ceilings :
        LET r == DecodePair(wire.val, M2) IN
        /\ last' = "pair_decode"
        /\ ceil' = M2
        /\ out' = (IF r.ok THEN Ok(r.val.val) ELSE r)
        /\ UNCHANGED <<arg, bval, wire>>
        /\ UNCHANGED <<calls, palletVars>>

\* CurrencySymbolPair::from(bounded_pair.clone())
UnwrapPairStep ==
    /\ last = "pair_try_from"
    /\ bval.some
    /\ last' = "pair_unwrap"
    /\ arg' = Some(FromBoundedPair(bval.val))
    /\ out' = Ok(FromBoundedPair(bval.val))
    /\ UNCHANGED <<ceil, bval, wire>>
    /\ UNCHANGED <<calls, palletVars>>

\* ... .try_into::<BoundedCurrencySymbolPair<_, _, M>>()
RewrapPairStep ==
    /\ last = "pair_unwrap"
    /\ last' = "pair_rewrap"
    /\ out' = TryFromPair(arg.val, ceil)
    /\ UNCHANGED <<arg, ceil, bval, wire>>
    /\ UNCHANGED <<calls, palletVars>>

Next ==
    \/ NewStep
    \/ TryFromStringStep
    \/ DefaultStep
    \/ DeserializeStep
    \/ MapStep
    \/ TranslateStep
    \/ IntoInnerStep
    \/ EncodeStep
    \/ ReceiveStep
    \/ DecodeStep
    \/ TryFromPairStep
    \/ EncodePairStep
    \/ ReceivePairStep
    \/ DecodePairStep
    \/ UnwrapPairStep
    \/ RewrapPairStep

Spec == Init /\ [][Next]_vars

----------------------------------------------------------------------------
(* Properties. *)

\* The validating constructors of BoundedString that take a string.
StringConstructors == {"new", "try_from"}

\* C1: new(s) under ceiling MaxLen returns Ok exactly when the encoded size
\* of s is at most the byte width of the compact encoding of MaxLen plus
\* MaxLen; it returns Err(InvalidStringByteLen) in every other case, and an
\* Ok carries s itself.
C1_NewOkIffEncodedSizeFits ==
    last \in StringConstructors =>
        /\ out.ok <=> Len(EncodeString(arg.val)) <= Len(CompactEncode(ceil)) + ceil
        /\ out.ok => out.val = [inner |-> arg.val, max |-> ceil]
        /\ ~out.ok => out = Err(InvalidStringByteLen)

\* C1 witness: new rejected a string whose encoding is one byte too long.
C1_Witness ==
    /\ last = "new"
    /\ ~out.ok
    /\ Len(EncodeString(arg.val)) = Len(CompactEncode(ceil)) + ceil + 1

\* Payload lengths and ceilings around every change of the prefix width,
\* the change at 2^30 included.
PrefixEdges ==
    {63, 64, 65, 16383, 16384, 16385, 1073741823, 1073741824, 1073741825}

\* C2: new(s) succeeds if and only if s has at most MaxLen payload bytes
\* (UTF-8 bytes, not characters: the one-character emoji counts four), also
\* where the prefix changes width: the comparison of encoded sizes accepts an
\* n-byte payload under ceiling M exactly when n <= M.
C2_OkIffPayloadBytesFit ==
    /\ last \in StringConstructors => (out.ok <=> Len(arg.val) <= ceil)
    /\ (last \in StringConstructors /\ arg.val = Utf8(129413)) =>
            (CharCount(arg.val) = 1 /\ (out.ok <=> ceil >= 4))
    /\ \A n \in PrefixEdges, M \in PrefixEdges :
        (CompactLen(n) + n <= MaxEncodedLen(M)) <=> n <= M

\* C2 witness: a 16384-byte string is rejected under ceiling 16383, where
\* the ceiling's prefix is two bytes wide and the string's is four.
C2_Witness ==
    /\ last = "new"
    /\ ceil = 16383
    /\ Len(arg.val) = 16384
    /\ ~out.ok

\* The length invariant of a bounded value: of a BoundedString, or of both
\* slots of a BoundedCurrencySymbolPair.
WithinBound(v) ==
    IF IsBoundedString(v)
    THEN EncodedSize(v.inner) <= MaxEncodedLen(v.max)
    ELSE /\ EncodedSize(v.from.inner) <= MaxEncodedLen(v.from.max)
         /\ EncodedSize(v.to.inner) <= MaxEncodedLen(v.to.max)

\* The operations whose Ok result is a bounded value.
BoundedProducers ==
    {"new", "try_from", "default", "deserialize", "map", "translate", "decode",
     "pair_try_from", "pair_decode", "pair_rewrap"}

\* C3: every bounded value obtained through new, try_from, map, translate,
\* default, decode or deserialize satisfies encoded_size(inner) <=
\* max_encoded_len(); map and translate return an error and no value when
\* the mapped string exceeds the ceiling; and the value a caller holds is
\* never changed in place: it is only ever replaced by the Ok result of map
\* or translate.
C3_BoundedValuesWithinBound ==
    /\ [](/\ bval.some => WithinBound(bval.val)
          /\ (last \in BoundedProducers /\ out.ok) => WithinBound(out.val)
          /\ (last \in {"map", "translate"} /\ arg.some
                /\ EncodedSize(arg.val) > MaxEncodedLen(ceil))
                => (out = Err(InvalidStringByteLen) /\ bval = None))
    /\ [][(bval.some /\ bval' # bval) =>
            /\ last' \in {"map", "translate", "into_inner"}
            /\ bval' = (IF last' # "into_inner" /\ out'.ok
                        THEN Some(out'.val) ELSE None)]_vars

\* C3 witness: map produced a string over the ceiling and returned an error.
C3_Witness ==
    /\ last = "map"
    /\ arg.some
    /\ EncodedSize(arg.val) > MaxEncodedLen(ceil)
    /\ ~out.ok

\* C4: a bounded string is encoded exactly as its inner string, and decoding
\* runs the construction check again: the encoding of a value built under one
\* ceiling decodes under another ceiling if and only if every decoded symbol
\* has at most that many payload bytes, and otherwise decode returns the
\* error 'The string byte size exceeds max allowed' and no value.
C4_DecodeRechecks ==
    /\ last = "encode" =>
            wire.val = CompactEncode(Len(bval.val.inner)) \o bval.val.inner
    /\ (last = "decode" /\ bval.some) =>
            /\ out.ok <=> Len(bval.val.inner) <= ceil
            /\ out.ok => out.val = [inner |-> bval.val.inner, max |-> ceil]
            /\ ~out.ok => out = Err("The string byte size exceeds max allowed")
    /\ last = "pair_encode" =>
            wire.val = EncodeString(bval.val.from.inner)
                        \o EncodeString(bval.val.to.inner)
    /\ (last = "pair_decode" /\ bval.some) =>
            /\ out.ok <=> (/\ Len(bval.val.from.inner) <= ceil
                           /\ Len(bval.val.to.inner) <= ceil)
            /\ out.ok =>
                out.val = NewPair([inner |-> bval.val.from.inner, max |-> ceil],
                                  [inner |-> bval.val.to.inner, max |-> ceil])
            /\ ~out.ok => out = Err("The string byte size exceeds max allowed")

\* C4 witness: a pair encoded under a larger ceiling fails to decode under a
\* smaller one that its to symbol alone exceeds.
C4_Witness ==
    /\ last = "pair_decode"
    /\ bval.some
    /\ ceil < bval.val.from.max
    /\ Len(bval.val.from.inner) <= ceil
    /\ Len(bval.val.to.inner) > ceil
    /\ ~out.ok

\* C5: decoding the encoding of a bounded string, or of a bounded pair,
\* under the ceiling it was built with succeeds and yields the original
\* value: from in the from slot and to in the to slot.
C5_RoundTrip ==
    /\ (last = "decode" /\ bval.some /\ ceil = bval.val.max) =>
            out = Ok(bval.val)
    /\ (last = "pair_decode" /\ bval.some /\ ceil = bval.val.from.max) =>
            /\ out = Ok(bval.val)
            /\ out.val.from.inner = arg.val.from
            /\ out.val.to.inner = arg.val.to

\* C5 witness: a pair whose to symbol is the longer one was decoded back.
C5_Witness ==
    /\ last = "pair_decode"
    /\ bval.some
    /\ ceil = bval.val.from.max
    /\ Len(arg.val.to) > Len(arg.val.from)
    /\ Len(arg.val.from) > 0
    /\ out.ok

\* C6: a string rejected under a ceiling is rejected under every smaller
\* ceiling, a string accepted under a ceiling is accepted under every larger
\* one, and every string is accepted under some ceiling above its encoded
\* size.
C6_RejectionMonotone ==
    last \in StringConstructors =>
        /\ ~out.ok => \A M2 \in Ceilings : M2 < ceil => ~New(arg.val, M2).ok
        /\ out.ok => \A M2 \in Ceilings : M2 > ceil => New(arg.val, M2).ok
        /\ \E M2 \in {EncodedSize(arg.val) + 1, EncodedSize(arg.val) + 2} :
                M2 > EncodedSize(arg.val) /\ New(arg.val, M2).ok

\* C6 witness: a 65-byte string was rejected under ceiling 64, with the
\* smaller ceiling 63 on the other side of a prefix change.
C6_Witness ==
    /\ last = "new"
    /\ ceil = 64
    /\ Len(arg.val) = 65
    /\ ~out.ok

\* C7: try_from of a pair returns Ok if and only if both symbols pass new
\* by themselves, the Ok carrying the two bounded symbols in their slots;
\* otherwise it returns Err(InvalidStringByteLen) and no bounded pair.
C7_PairAllOrNothing ==
    last = "pair_try_from" =>
        /\ out.ok <=> (New(arg.val.from, ceil).ok /\ New(arg.val.to, ceil).ok)
        /\ out.ok => /\ out.val = NewPair(New(arg.val.from, ceil).val,
                                          New(arg.val.to, ceil).val)
                     /\ bval = Some(out.val)
        /\ ~out.ok => (out = Err(InvalidStringByteLen) /\ bval = None)

\* C7 witness: the from symbol passes by itself, the to symbol does not, and
\* the conversion of the pair failed.
C7_Witness ==
    /\ last = "pair_try_from"
    /\ New(arg.val.from, ceil).ok
    /\ ~New(arg.val.to, ceil).ok
    /\ ~out.ok

\* C8: converting a bounded pair to a plain pair keeps from in from and to in
\* to, and converting that back under the same ceiling returns Ok of the
\* bounded pair started from.
C8_UnwrapRewrap ==
    /\ last = "pair_unwrap" =>
            arg.val = NewPair(bval.val.from.inner, bval.val.to.inner)
    /\ last = "pair_rewrap" => out = Ok(bval.val)

\* C8 witness: a pair of two different symbols was unwrapped and rewrapped.
C8_Witness ==
    /\ last = "pair_rewrap"
    /\ bval.val.from.inner # bval.val.to.inner
    /\ out.ok

\* C9: max_encoded_len of a bounded string is the width of the compact
\* encoding of MaxLen plus MaxLen (11 for 10, 1002 for 1000), and a bounded
\* string has that encoded size exactly when it has MaxLen bytes; the pair's
\* max_encoded_len is twice that; and no bounded pair produced by conversion
\* or decoding encodes to more than the pair's max_encoded_len.
C9_MaxEncodedLen ==
    /\ MaxEncodedLen(10) = 11
    /\ MaxEncodedLen(1000) = 1002
    /\ \A M \in Ceilings :
        /\ MaxEncodedLen(M) = Len(CompactEncode(M)) + M
        /\ PairMaxEncodedLen(M) = 2 * (Len(CompactEncode(M)) + M)
    /\ (bval.some /\ IsBoundedString(bval.val)) =>
        (Len(EncodeBounded(bval.val)) = MaxEncodedLen(bval.val.max)
            <=> Len(bval.val.inner) = bval.val.max)
    /\ (bval.some /\ IsBoundedPair(bval.val)) =>
        Len(EncodePair(bval.val)) <= PairMaxEncodedLen(bval.val.from.max)
    /\ (last \in {"pair_try_from", "pair_decode", "pair_rewrap"} /\ out.ok) =>
        Len(EncodePair(out.val)) <= PairMaxEncodedLen(ceil)

\* C9 witness: a decoded pair whose encoding is exactly as long as the
\* pair's max_encoded_len.
C9_Witness ==
    /\ last = "pair_decode"
    /\ out.ok
    /\ ceil > 0
    /\ Len(EncodePair(out.val)) = PairMaxEncodedLen(ceil)

\* C10: two bounded pairs of one ceiling have equal encodings if and only if
\* their from strings are equal and their to strings are equal: moving the
\* boundary between from and to, or exchanging the slots, changes the key.
C10_CanonicalKey ==
    last = "pair_encode" =>
        \A q \in PairInputs :
            LET other == TryFromPair(q, ceil) IN
            other.ok =>
                (EncodePair(other.val) = wire.val
                    <=> (/\ q.from = bval.val.from.inner
                         /\ q.to = bval.val.to.inner))

\* C10 witness: the key of ("AB", "A") was computed, under a ceiling that
\* also admits ("A", "BA"), which has the same bytes in a row.
C10_Witness ==
    /\ last = "pair_encode"
    /\ bval.val.from.inner = <<65, 66>>
    /\ bval.val.to.inner = <<65>>
    /\ TryFromPair(NewPair(<<65>>, <<66, 65>>), ceil).ok

----------------------------------------------------------------------------
(* libs/price-provider/src/currency_pair.rs: equality and the combinators. *)
(* An operation that takes a closure is described by the value it returns  *)
(* and by the closure as the operation leaves it.                          *)

\* Mutant: the two symbols are compared as an unordered pair.
PairEq_Unordered(a, b) == {a.from, a.to} = {b.from, b.to}

\* #[derive(PartialEq, Eq)] on CurrencySymbolPair: from == from && to == to
PairEq(a, b) == a.from = b.from /\ a.to = b.to

\* map_over_from: the closure after the call
MapOverFromClosure(pair, map) == Called(map, pair.from)

\* map_over_to: the closure after the call
MapOverToClosure(pair, map) == Called(map, pair.to)

\* translate_over_from: the closure after the call
TranslateOverFromClosure(pair, translate) == Called(translate, pair.from)

\* translate_over_to: the closure after the call
TranslateOverToClosure(pair, translate) == Called(translate, pair.to)

\* CurrencySymbolPair::map_pair:
\*   self.map_over_from(&mut map).map_over_to(map)
MapPair(pair, map) ==
    MapOverTo(MapOverFrom(pair, map), MapOverFromClosure(pair, map))

MapPairClosure(pair, map) ==
    MapOverToClosure(MapOverFrom(pair, map), MapOverFromClosure(pair, map))

\* Mutant: the to symbol is translated first.
TranslatePair_ToFirst(pair, translate) ==
    LET first == TranslateOverTo(pair, translate) IN
    IF ~first.ok THEN first
    ELSE TranslateOverFrom(first.val, TranslateOverToClosure(pair, translate))

\* CurrencySymbolPair::translate_pair:
\*   self.translate_over_from(&mut translate)?.translate_over_to(translate)
TranslatePair(pair, translate) ==
    LET first == TranslateOverFrom(pair, translate) IN
    IF ~first.ok THEN first
    ELSE TranslateOverTo(first.val, TranslateOverFromClosure(pair, translate))

TranslatePairClosure(pair, translate) ==
    LET first == TranslateOverFrom(pair, translate)
        after == TranslateOverFromClosure(pair, translate) IN
    IF ~first.ok THEN after ELSE TranslateOverToClosure(first.val, after)

\* libs/price_provider/src/currency_pair.rs, CurrencySymbolPair::map_pair:
\*   CurrencySymbolPair::new((map)(from), (map)(to))
LegacyMapPair(pair, map) ==
    NewPair(Call(map, pair.from), Call(Called(map, pair.from), pair.to))

LegacyMapPairClosure(pair, map) == Called(Called(map, pair.from), pair.to)

----------------------------------------------------------------------------
(* A caller comparing pairs and applying the combinators. *)

\* The closures handed to the map combinators: the stateless ones, and one
\* that counts its calls.
PairMapFns == MapFns \cup {Stateful("count"), Stateful("id")}

\* The fallible closures handed to the translate combinators.
PairTranslateFns ==
    TranslateFns \cup {Stateful("ok_count"), Stateful("only_A"),
                       Stateful("fail_second"), Stateful("fail")}

\* Operation op ran on input, returned r and left the closure's log as log.
Ran(op, input, r, log) ==
    /\ last' = op
    /\ arg' = Some(input)
    /\ out' = r
    /\ calls' = log
    /\ UNCHANGED <<ceil, bval, wire, palletVars>>

\* What a closure has seen; a stateless closure keeps no log.
Seen(f) == IF "seen" \in DOMAIN f THEN f.seen ELSE <<>>

\* lhs == rhs
PairEqStep ==
    /\ Idle
    /\ \E p \in PairInputs, q \in PairInputs :
            Ran("pair_eq", [lhs |-> p, rhs |-> q], Ok(PairEq(p, q)), <<>>)

\* pair.map_over_from(f)
MapOverFromStep ==
    /\ Idle
    /\ \E p \in PairInputs, f \in PairMapFns :
            Ran("map_over_from", [pair |-> p, f |-> f],
                Ok(MapOverFrom(p, f)), Seen(MapOverFromClosure(p, f)))

\* pair.map_over_to(f)
MapOverToStep ==
    /\ Idle
    /\ \E p \in PairInputs, f \in PairMapFns :
            Ran("map_over_to", [pair |-> p, f |-> f],
                Ok(MapOverTo(p, f)), Seen(MapOverToClosure(p, f)))

\* pair.translate_over_from(f)
TranslateOverFromStep ==
    /\ Idle
    /\ \E p \in PairInputs, f \in PairTranslateFns :
            Ran("translate_over_from", [pair |-> p, f |-> f],
                TranslateOverFrom(p, f), Seen(TranslateOverFromClosure(p, f)))

\* pair.translate_over_to(f)
TranslateOverToStep ==
    /\ Idle
    /\ \E p \in PairInputs, f \in PairTranslateFns :
            Ran("translate_over_to", [pair |-> p, f |-> f],
                TranslateOverTo(p, f), Seen(TranslateOverToClosure(p, f)))

\* pair.map_pair(f)
MapPairStep ==
    /\ Idle
    /\ \E p \in PairInputs, f \in PairMapFns :
            Ran("map_pair", [pair |-> p, f |-> f],
                Ok(MapPair(p, f)), Seen(MapPairClosure(p, f)))

\* pair.map_pair(f) of libs/price_provider
LegacyMapPairStep ==
    /\ Idle
    /\ \E p \in PairInputs, f \in PairMapFns :
            Ran("legacy_map_pair", [pair |-> p, f |-> f],
                Ok(LegacyMapPair(p, f)), Seen(LegacyMapPairClosure(p, f)))

\* pair.translate_pair(f)
TranslatePairStep ==
    /\ Idle
    /\ \E p \in PairInputs, f \in PairTranslateFns :
            Ran("translate_pair", [pair |-> p, f |-> f],
                TranslatePair(p, f), Seen(TranslatePairClosure(p, f)))

NextPair ==
    \/ PairEqStep
    \/ MapOverFromStep
    \/ MapOverToStep
    \/ TranslateOverFromStep
    \/ TranslateOverToStep
    \/ MapPairStep
    \/ LegacyMapPairStep
    \/ TranslatePairStep

SpecPair == Init /\ [][NextPair]_vars

----------------------------------------------------------------------------
(* Properties of pair equality and the combinators. *)

\* C11: two pairs are equal exactly when their from symbols are equal and
\* their to symbols are equal; a pair of two distinct symbols differs from
\* the pair with the symbols swapped.
C11_PairEqualityOrdered ==
    last = "pair_eq" =>
        LET p == arg.val.lhs
            q == arg.val.rhs IN
        /\ out.val <=> (p.from = q.from /\ p.to = q.to)
        /\ (p.from # p.to /\ q = NewPair(p.to, p.from)) => ~out.val

C11_Witness ==
    /\ last = "pair_eq"
    /\ arg.val.lhs.from # arg.val.lhs.to
    /\ arg.val.rhs = NewPair(arg.val.lhs.to, arg.val.lhs.from)
    /\ out = Ok(FALSE)

\* C12: map_over_from(f) returns a pair whose from is f(old from) and whose
\* to is the old to; map_over_to(f) returns a pair whose to is f(old to)
\* and whose from is the old from; each calls f once, on its own slot only.
C12_MapOverOneSlot ==
    /\ last = "map_over_from" =>
            LET p == arg.val.pair IN
            /\ out = Ok(NewPair(Call(arg.val.f, p.from), p.to))
            /\ "seen" \in DOMAIN arg.val.f => calls = <<p.from>>
    /\ last = "map_over_to" =>
            LET p == arg.val.pair IN
            /\ out = Ok(NewPair(p.from, Call(arg.val.f, p.to)))
            /\ "seen" \in DOMAIN arg.val.f => calls = <<p.to>>

C12_Witness ==
    /\ last = "map_over_from"
    /\ arg.val.f = Stateful("count")
    /\ arg.val.pair = NewPair(<<65>>, <<66>>)
    /\ out = Ok(NewPair(<<65, 48>>, <<66>>))
    /\ calls = <<(<<65>>)>>

\* C13: translate_over_from and translate_over_to return Ok of the pair
\* with their slot replaced by f's value and the other slot unchanged when
\* f returns Ok, and exactly f's error, and no pair, when f returns Err.
C13_TranslateOverOneSlot ==
    /\ last = "translate_over_from" =>
            LET p == arg.val.pair
                r == Call(arg.val.f, p.from) IN
            /\ r.ok => out = Ok(NewPair(r.val, p.to))
            /\ ~r.ok => out = Err(r.err)
    /\ last = "translate_over_to" =>
            LET p == arg.val.pair
                r == Call(arg.val.f, p.to) IN
            /\ r.ok => out = Ok(NewPair(p.from, r.val))
            /\ ~r.ok => out = Err(r.err)

C13_Witness ==
    /\ last = "translate_over_to"
    /\ arg.val.f = Stateful("only_A")
    /\ arg.val.pair = NewPair(<<65>>, <<66>>)
    /\ out = Err([rejected |-> <<66>>])

\* C14: map_pair and translate_pair apply f to from first and to to
\* second; translate_pair returns the first error in that order, and when
\* f fails on from it is not called on to.
C14_FromThenTo ==
    /\ last \in {"map_pair", "legacy_map_pair"} =>
            LET p == arg.val.pair
                f == arg.val.f IN
            /\ out = Ok(NewPair(Call(f, p.from), Call(Called(f, p.from), p.to)))
            /\ "seen" \in DOMAIN f => calls = <<p.from, p.to>>
    /\ last = "translate_pair" =>
            LET p == arg.val.pair
                f == arg.val.f
                from == Call(f, p.from)
                to == Call(Called(f, p.from), p.to) IN
            /\ ~from.ok =>
                    /\ out = Err(from.err)
                    /\ "seen" \in DOMAIN f => calls = <<p.from>>
            /\ from.ok =>
                    /\ "seen" \in DOMAIN f => calls = <<p.from, p.to>>
                    /\ out = (IF to.ok THEN Ok(NewPair(from.val, to.val))
                              ELSE Err(to.err))

C14_Witness ==
    /\ last = "translate_pair"
    /\ arg.val.f = Stateful("only_A")
    /\ arg.val.pair = NewPair(<<66>>, <<66, 66>>)
    /\ out = Err([rejected |-> <<66>>])
    /\ calls = <<(<<66>>)>>

----------------------------------------------------------------------------
(* Unsigned integers of any size: the decimal digits of a number, least    *)
(* significant first, without leading zeros; zero is the empty sequence.   *)
(* u64, u128 and U256 values are kept in this form.                        *)

RECURSIVE Digits(_)
\* The number n, given as a small integer.
Digits(n) == IF n = 0 THEN <<>> ELSE <<n % 10>> \o Digits(n \div 10)

\* Drops leading zeros.
Trim(a) ==
    LET top == {i \in 1..Len(a) : a[i] # 0 /\ \A j \in (i + 1)..Len(a) : a[j] = 0} IN
    IF top = {} THEN <<>> ELSE SubSeq(a, 1, CHOOSE i \in top : TRUE)

\* One round of carrying: every column keeps its last digit and hands the
\* rest to the next column.
CarryOnce(c) ==
    [k \in 1..(Len(c) + 1) |->
        (IF k <= Len(c) THEN c[k] % 10 ELSE 0)
        + (IF k > 1 THEN c[k - 1] \div 10 ELSE 0)]

\* The last round, for columns of at most 10: a carry enters column k when
\* the nearest column below k that does not hold 9 holds 10.
CarryRipple(c) ==
    LET carry(k) ==
            LET below == {j \in 1..(k - 1) :
                            c[j] # 9 /\ \A i \in (j + 1)..(k - 1) : c[i] = 9} IN
            IF below # {} /\ c[CHOOSE j \in below : TRUE] = 10 THEN 1 ELSE 0 IN
    [k \in 1..(Len(c) + 1) |->
        ((IF k <= Len(c) THEN c[k] ELSE 0) + carry(k)) % 10]

\* The number whose columns are c, each column below 10000.
FromColumns(c) == Trim(CarryRipple(CarryOnce(CarryOnce(CarryOnce(CarryOnce(c))))))

\* a + b
Add(a, b) ==
    LET n == IF Len(a) > Len(b) THEN Len(a) ELSE Len(b) IN
    FromColumns([k \in 1..n |-> (IF k <= Len(a) THEN a[k] ELSE 0)
                                + (IF k <= Len(b) THEN b[k] ELSE 0)])

RECURSIVE SumOver(_, _, _)
\* term[lo] + ... + term[hi]
SumOver(term, lo, hi) ==
    IF lo > hi THEN 0
    ELSE IF lo = hi THEN term[lo]
    ELSE LET mid == (lo + hi) \div 2 IN
         SumOver(term, lo, mid) + SumOver(term, mid + 1, hi)

\* a * b, the shorter factor having at most 123 digits
Mul(a, b) ==
    IF a = <<>> \/ b = <<>> THEN <<>>
    ELSE LET s == IF Len(a) <= Len(b) THEN a ELSE b
             l == IF Len(a) <= Len(b) THEN b ELSE a IN
         FromColumns([k \in 1..(Len(s) + Len(l) - 1) |->
            SumOver([i \in 1..Len(s) |->
                        IF k - i + 1 >= 1 /\ k - i + 1 <= Len(l)
                        THEN s[i] * l[k - i + 1] ELSE 0],
                    1, Len(s))])

\* a < b
Less(a, b) ==
    IF Len(a) # Len(b) THEN Len(a) < Len(b)
    ELSE \E i \in 1..Len(a) :
            a[i] < b[i] /\ \A j \in (i + 1)..Len(a) : a[j] = b[j]

\* a <= b
Leq(a, b) == ~Less(b, a)

\* 10^e
Pow10(e) == [i \in 1..(e + 1) |-> IF i = e + 1 THEN 1 ELSE 0]

\* floor(n / d) for a divisor d that is a power of ten
Div(n, d) == SubSeq(n, Len(d), Len(n))


RECURSIVE TwoToTwoTo(_)
\* 2^(2^k): 2^8, 2^16, ... are one more than the largest u8, u16, ...
TwoToTwoTo(k) ==
    IF k = 0 THEN Digits(2) ELSE LET p == TwoToTwoTo(k - 1) IN Mul(p, p)


----------------------------------------------------------------------------
(* libs/price_provider/src/price_record.rs *)

\* The unsigned integer types a price is computed from and into.
IntTypes == {"u8", "u16", "u32", "u64", "u128", "U256", "U512"}

\* The signed type of an integer literal: price_per_unit(1_000) passes an i32.
SignedTypes == {"i32"}

\* The binary logarithm of the number of bits of a type.
LogBits(ty) ==
    CASE ty = "u8" -> 3
      [] ty = "u16" -> 4
      [] ty = "u32" -> 5
      [] ty = "u64" -> 6
      [] ty = "u128" -> 7
      [] ty = "U256" -> 8
      [] ty = "U512" -> 9

\* For every type, the least number it cannot hold: 2^bits.
Limits == [ty \in IntTypes |-> TwoToTwoTo(LogBits(ty))]

\* A value of an integer type: its type, its sign and its magnitude.
Typed(ty, neg, val) == [ty |-> ty, neg |-> neg, val |-> val]

\* The thread panicked: no value is returned.
Panicked == [panic |-> TRUE]

IsPanic(r) == "panic" \in DOMAIN r

\* CheckedConversion::checked_into: TryInto::try_into(self).ok()
CheckedInto(val, ty) == IF Less(val, Limits[ty]) THEN Some(val) ELSE None

\* unit_amount.checked_into() for I: TryInto<U256>.  An unsigned I is
\* converted when its value fits.  A signed I converts through From<I> for
\* U256, which never yields an error: it panics on a negative value.
CheckedIntoU256(unit_amount) ==
    IF unit_amount.ty \in SignedTypes
    THEN (IF unit_amount.neg THEN Panicked ELSE Some(unit_amount.val))
    ELSE CheckedInto(unit_amount.val, "U256")

\* Mutant: the power is taken in 512 bits.
CheckedPowOfTen_Wide(exp) == CheckedInto(Pow10(exp), "U512")

\* U256::from(10u8).checked_pow(exp)
CheckedPowOfTen(exp) == CheckedInto(Pow10(exp), "U256")

\* Mutant: the product is taken in a wider accumulator and never refused.
CheckedMul_Unchecked(a, b) == Some(Mul(a, b))

\* U256::checked_mul
CheckedMul(a, b) == CheckedInto(Mul(a, b), "U256")

\* U256::checked_div
CheckedDiv(a, b) == IF b = <<>> THEN None ELSE Some(Div(a, b))

\* PriceRecord::new
NewPriceRecord(amount, decimals, block_number) ==
    [amount |-> amount, decimals |-> decimals, block_number |-> block_number]

\* Mutant: the amount is divided before it is multiplied.
PricePerUnit_DivideFirst(record, unit_amount, O) ==
    LET divisor == CheckedPowOfTen(record.decimals)
        unit == CheckedIntoU256(unit_amount) IN
    IF ~divisor.some THEN None
    ELSE IF IsPanic(unit) THEN Panicked
    ELSE IF ~unit.some THEN None
    ELSE LET quotient == CheckedDiv(record.amount, divisor.val) IN
         IF ~quotient.some THEN None
         ELSE LET product == CheckedMul(quotient.val, unit.val) IN
              IF ~product.some THEN None ELSE CheckedInto(product.val, O)

\* PriceRecord::price_per_unit::<I, O>, I being the type of unit_amount
PricePerUnit(record, unit_amount, O) ==
    LET record_amount == record.amount
        divisor == CheckedPowOfTen(record.decimals) IN
    IF ~divisor.some THEN None
    ELSE LET unit == CheckedIntoU256(unit_amount) IN
         IF IsPanic(unit) THEN Panicked
         ELSE IF ~unit.some THEN None
         ELSE LET product == CheckedMul(record_amount, unit.val) IN
              IF ~product.some THEN None
              ELSE LET quotient == CheckedDiv(product.val, divisor.val) IN
                   IF ~quotient.some THEN None
                   ELSE CheckedInto(quotient.val, O)

\* Mutant: the u8 addition wraps around.
IncDecimals_Wrapping(record, decimals) ==
    Some([record EXCEPT !.decimals = (@ + decimals) % 256])

\* PriceRecord::inc_decimals: self.decimals.checked_add(decimals)
IncDecimals(record, decimals) ==
    LET sum == record.decimals + decimals IN
    IF sum > 255 THEN None
    ELSE Some(NewPriceRecord(record.amount, sum, record.block_number))

\* PriceRecord::dec_decimals: self.decimals.checked_sub(decimals)
DecDecimals(record, decimals) ==
    LET diff == record.decimals - decimals IN
    IF diff < 0 THEN None
    ELSE Some(NewPriceRecord(record.amount, diff, record.block_number))


----------------------------------------------------------------------------
(* A caller making price records, adjusting and evaluating them. *)

\* a - 1, for a > 0
Pred(a) ==
    LET j == CHOOSE j \in 1..Len(a) : a[j] # 0 /\ \A i \in 1..(j - 1) : a[i] = 0 IN
    Trim([k \in 1..Len(a) |->
            IF k < j THEN 9 ELSE IF k = j THEN a[k] - 1 ELSE a[k]])

\* The largest value of a type.
MaxOf(ty) == Pred(Limits[ty])

\* The u64 amounts tried: those of the tests.
Amounts == {Digits(0), Digits(1234), MaxOf("u64")}

\* The u8 decimals tried: those of the tests, the largest power of ten that
\* fits 256 bits and the first that does not, and the largest u8.
DecimalsInputs == {0, 1, 3, 15, 77, 78, 255}

\* The decimals a record is adjusted by.
DecimalsSteps == {0, 1, 2, 15, 255}

\* The block number the records are published at: that of tests::decimals.
BlockNumbers == {7}

\* The unit amounts tried, in the types they are passed in.
UnitAmounts ==
    {Typed("u8", FALSE, Digits(32)), Typed("u16", FALSE, Digits(32)),
     Typed("u32", FALSE, Digits(32)), Typed("u64", FALSE, Digits(32)),
     Typed("u128", FALSE, Digits(32)), Typed("i32", FALSE, Digits(0)),
     Typed("i32", FALSE, Digits(1000)), Typed("i32", TRUE, Digits(1)),
     Typed("u128", FALSE, MaxOf("u128")), Typed("U256", FALSE, MaxOf("U256")),
     Typed("U512", FALSE, Digits(32)), Typed("U512", FALSE, Limits["U256"])}

\* The types a price is asked in.
OutputTypes == {"u8", "u16", "u32", "u64", "u128", "U256"}

\* PriceRecord::new(amount, decimals, block_number)
NewPriceRecordStep ==
    /\ Idle
    /\ \E amount \in Amounts, decimals \in DecimalsInputs, b \in BlockNumbers :
        LET record == NewPriceRecord(amount, decimals, b) IN
        /\ last' = "record_new"
        /\ arg' = Some([record |-> record])
        /\ out' = Some(record)
    /\ UNCHANGED <<ceil, bval, wire, calls, palletVars>>

\* The caller holds the record the last operation returned.
HoldsRecord ==
    /\ last \in {"record_new", "inc_decimals", "dec_decimals"}
    /\ out.some

\* record.inc_decimals(by) on a new record
IncDecimalsStep ==
    /\ last = "record_new"
    /\ \E by \in DecimalsSteps :
        /\ last' = "inc_decimals"
        /\ arg' = Some([record |-> out.val, by |-> by])
        /\ out' = IncDecimals(out.val, by)
    /\ UNCHANGED <<ceil, bval, wire, calls, palletVars>>

\* record.dec_decimals(by) on a new record or on one just increased
DecDecimalsStep ==
    /\ HoldsRecord
    /\ last # "dec_decimals"
    /\ \E by \in DecimalsSteps :
        /\ last' = "dec_decimals"
        /\ arg' = Some([record |-> out.val, by |-> by])
        /\ out' = DecDecimals(out.val, by)
    /\ UNCHANGED <<ceil, bval, wire, calls, palletVars>>

\* record.price_per_unit::<I, O>(unit_amount)
PricePerUnitStep ==
    /\ HoldsRecord
    /\ \E unit_amount \in UnitAmounts, O \in OutputTypes :
        /\ last' = "price_per_unit"
        /\ arg' = Some([record |-> out.val, unit_amount |-> unit_amount, O |-> O])
        /\ out' = PricePerUnit(out.val, unit_amount, O)
    /\ UNCHANGED <<ceil, bval, wire, calls, palletVars>>

NextPrice ==
    \/ NewPriceRecordStep
    \/ IncDecimalsStep
    \/ DecDecimalsStep
    \/ PricePerUnitStep

SpecPrice == Init /\ [][NextPrice]_vars


----------------------------------------------------------------------------
(* Properties of price records. *)

\* C15: whenever price_per_unit returns Some(v), v is the floor of
\* amount * unit_amount / 10^decimals taken over the unbounded integers,
\* whatever the types of the unit amount and of the result: amount 1234,
\* decimals 3 and unit 32 give 39.
C15_PriceIsFloorOfExactQuotient ==
    (last = "price_per_unit" /\ ~IsPanic(out) /\ out.some) =>
        LET record == arg.val.record
            exact == Mul(record.amount, arg.val.unit_amount.val)
            divisor == Pow10(record.decimals)
            v == out.val IN
        /\ Leq(Mul(v, divisor), exact)
        /\ Less(exact, Mul(Add(v, Digits(1)), divisor))
        /\ (/\ record.amount = Digits(1234)
            /\ record.decimals = 3
            /\ arg.val.unit_amount.val = Digits(32)) => v = Digits(39)

C15_Witness ==
    /\ last = "price_per_unit"
    /\ arg.val.record.amount = Digits(1234)
    /\ arg.val.record.decimals = 3
    /\ arg.val.unit_amount = Typed("u128", FALSE, Digits(32))
    /\ arg.val.O = "u16"
    /\ out = Some(Digits(39))

\* The unit amount has a value in the 256-bit accumulator.
UnitConvertible(unit_amount) ==
    ~unit_amount.neg /\ Less(unit_amount.val, Limits["U256"])

\* C16: price_per_unit never panics, and it returns None exactly when the
\* unit amount cannot be converted into the 256-bit accumulator, or
\* 10^decimals does not fit 256 bits, or amount * unit_amount does not fit
\* 256 bits, or the quotient does not fit the type asked for.
C16_CheckedNeverPanics ==
    last = "price_per_unit" =>
        LET record == arg.val.record
            unit_amount == arg.val.unit_amount
            divisor == Pow10(record.decimals)
            exact == Mul(record.amount, unit_amount.val)
            refused ==
                \/ ~UnitConvertible(unit_amount)
                \/ ~Less(divisor, Limits["U256"])
                \/ ~Less(exact, Limits["U256"])
                \/ ~Less(Div(exact, divisor), Limits[arg.val.O]) IN
        /\ ~IsPanic(out)
        /\ out = None <=> refused

\* C17: inc_decimals(by) returns None exactly when decimals + by exceeds
\* 255 and dec_decimals(by) exactly when by exceeds decimals; otherwise
\* each returns the record with only its decimals changed, to the sum or
\* the difference.
C17_DecimalsChecked ==
    /\ last = "inc_decimals" =>
            LET record == arg.val.record
                by == arg.val.by IN
            /\ out = None <=> record.decimals + by > 255
            /\ out.some =>
                out.val = [amount |-> record.amount,
                           decimals |-> record.decimals + by,
                           block_number |-> record.block_number]
    /\ last = "dec_decimals" =>
            LET record == arg.val.record
                by == arg.val.by IN
            /\ out = None <=> by > record.decimals
            /\ out.some =>
                out.val = [amount |-> record.amount,
                           decimals |-> record.decimals - by,
                           block_number |-> record.block_number]

C17_Witness ==
    /\ last = "inc_decimals"
    /\ arg.val.record.decimals = 15
    /\ arg.val.by = 15
    /\ out.some
    /\ out.val.decimals = 30
    /\ out.val.block_number = 7


----------------------------------------------------------------------------
(* pallets/price-feed/src/lib.rs *)

\* T::MaxSymbolBytesLen of the runtime the pallet is tested in.
MaxSymbolBytesLen == 4

\* Blocks are produced up to this number.
MaxBlock == 1

\* Origins of a call.
Root == [kind |-> "root"]

Signed(who) == [kind |-> "signed", who |-> who]

Unsigned == [kind |-> "none"]

\* DispatchError values.
BadOrigin == [dispatch |-> "BadOrigin"]

Other(msg) == [dispatch |-> "Other", msg |-> msg]

Module(error) == [dispatch |-> "Module", error |-> error]

\* frame_system::ensure_signed
EnsureSigned(origin) ==
    IF origin.kind = "signed" THEN Ok(origin.who) ELSE Err(BadOrigin)

\* frame_system::ensure_root
EnsureRoot(origin) ==
    IF origin.kind = "root" THEN Ok(<<>>) ELSE Err(BadOrigin)

\* impl From<BoundedStringConversionError> for DispatchError
DispatchErrorFrom(e) == Other(ErrorText(e))

\* What a call leaves behind: its result, the two storage maps and the
\* events it deposited.
Outcome(result, ops, prs, evs) ==
    [result |-> result, operators |-> ops, prices |-> prs, events |-> evs]

\* A call that returned Err before writing anything.
Failed(st, e) == Outcome(Err(e), st.operators, st.prices, <<>>)

\* StorageMap::insert
Insert(map, key, value) ==
    [k \in DOMAIN map \cup {key} |-> IF k = key THEN value ELSE map[k]]

\* Prices::<T>::get, the getter Pallet::price
Price(prs, key) == IF key \in DOMAIN prs THEN Some(prs[key]) ELSE None

\* Mutant: an operator of any pair may set the price.
SetPrice_AnyPairOperator(st, origin, currency_pair, price, decimals) ==
    LET account == EnsureSigned(origin)
        stored_pair == TryFromPair(currency_pair, MaxSymbolBytesLen) IN
    IF ~account.ok THEN Failed(st, account.err)
    ELSE IF ~stored_pair.ok THEN Failed(st, DispatchErrorFrom(stored_pair.err))
    ELSE IF \E o \in st.operators : o[2] = account.val
    THEN LET price_record == NewPriceRecord(price, decimals, st.now) IN
         Outcome(Ok(<<>>), st.operators,
                 Insert(st.prices, stored_pair.val, price_record),
                 <<[event |-> "PriceSet", pair |-> stored_pair.val,
                    record |-> price_record, account |-> account.val]>>)
    ELSE Failed(st, Module("NotAnOperator"))

\* Mutant: a pair that has a price keeps it.
SetPrice_KeepsFirst(st, origin, currency_pair, price, decimals) ==
    LET account == EnsureSigned(origin)
        stored_pair == TryFromPair(currency_pair, MaxSymbolBytesLen) IN
    IF ~account.ok THEN Failed(st, account.err)
    ELSE IF ~stored_pair.ok THEN Failed(st, DispatchErrorFrom(stored_pair.err))
    ELSE IF <<stored_pair.val, account.val>> \in st.operators
    THEN LET price_record ==
                IF stored_pair.val \in DOMAIN st.prices
                THEN st.prices[stored_pair.val]
                ELSE NewPriceRecord(price, decimals, st.now) IN
         Outcome(Ok(<<>>), st.operators,
                 Insert(st.prices, stored_pair.val, price_record),
                 <<[event |-> "PriceSet", pair |-> stored_pair.val,
                    record |-> price_record, account |-> account.val]>>)
    ELSE Failed(st, Module("NotAnOperator"))

\* Mutant: the signer is looked up before the pair is validated.
SetPrice_MembershipFirst(st, origin, currency_pair, price, decimals) ==
    LET account == EnsureSigned(origin)
        stored_pair == TryFromPair(currency_pair, MaxSymbolBytesLen)
        key == NewPair([inner |-> currency_pair.from, max |-> MaxSymbolBytesLen],
                       [inner |-> currency_pair.to, max |-> MaxSymbolBytesLen]) IN
    IF ~account.ok THEN Failed(st, account.err)
    ELSE IF <<key, account.val>> \notin st.operators
    THEN Failed(st, Module("NotAnOperator"))
    ELSE IF ~stored_pair.ok THEN Failed(st, DispatchErrorFrom(stored_pair.err))
    ELSE LET price_record == NewPriceRecord(price, decimals, st.now) IN
         Outcome(Ok(<<>>), st.operators,
                 Insert(st.prices, stored_pair.val, price_record),
                 <<[event |-> "PriceSet", pair |-> stored_pair.val,
                    record |-> price_record, account |-> account.val]>>)

\* Pallet::set_price
SetPrice(st, origin, currency_pair, price, decimals) ==
    LET account == EnsureSigned(origin) IN
    IF ~account.ok THEN Failed(st, account.err)
    ELSE LET stored_pair == TryFromPair(currency_pair, MaxSymbolBytesLen) IN
         IF ~stored_pair.ok THEN Failed(st, DispatchErrorFrom(stored_pair.err))
         ELSE IF <<stored_pair.val, account.val>> \in st.operators
         THEN LET price_record == NewPriceRecord(price, decimals, st.now) IN
              Outcome(Ok(<<>>), st.operators,
                      Insert(st.prices, stored_pair.val, price_record),
                      <<[event |-> "PriceSet", pair |-> stored_pair.val,
                         record |-> price_record, account |-> account.val]>>)
         ELSE Failed(st, Module("NotAnOperator"))

\* Mutant: any signed account may add an operator, as well as Root.
AddOperator_SignedToo(st, origin, currency_pair, operator) ==
    LET stored_pair == TryFromPair(currency_pair, MaxSymbolBytesLen) IN
    IF origin.kind = "none" THEN Failed(st, BadOrigin)
    ELSE IF ~stored_pair.ok THEN Failed(st, DispatchErrorFrom(stored_pair.err))
    ELSE IF <<stored_pair.val, operator>> \notin st.operators
    THEN Outcome(Ok(<<>>),
                 st.operators \cup {<<stored_pair.val, operator>>},
                 st.prices,
                 <<[event |-> "OperatorAdded", pair |-> stored_pair.val,
                    account |-> operator]>>)
    ELSE Failed(st, Module("OperatorIsAlreadyAdded"))

\* Pallet::add_operator
AddOperator(st, origin, currency_pair, operator) ==
    LET root == EnsureRoot(origin) IN
    IF ~root.ok THEN Failed(st, root.err)
    ELSE LET stored_pair == TryFromPair(currency_pair, MaxSymbolBytesLen) IN
         IF ~stored_pair.ok THEN Failed(st, DispatchErrorFrom(stored_pair.err))
         ELSE IF <<stored_pair.val, operator>> \notin st.operators
         THEN Outcome(Ok(<<>>),
                      st.operators \cup {<<stored_pair.val, operator>>},
                      st.prices,
                      <<[event |-> "OperatorAdded", pair |-> stored_pair.val,
                         account |-> operator]>>)
         ELSE Failed(st, Module("OperatorIsAlreadyAdded"))

\* Mutant: removing an account that is not an operator succeeds.
RemoveOperator_Forgiving(st, origin, currency_pair, operator) ==
    LET root == EnsureRoot(origin)
        stored_pair == TryFromPair(currency_pair, MaxSymbolBytesLen) IN
    IF ~root.ok THEN Failed(st, root.err)
    ELSE IF ~stored_pair.ok THEN Failed(st, DispatchErrorFrom(stored_pair.err))
    ELSE Outcome(Ok(<<>>),
                 st.operators \ {<<stored_pair.val, operator>>},
                 st.prices,
                 <<[event |-> "OperatorRemoved", pair |-> stored_pair.val,
                    account |-> operator]>>)

\* Mutant: the price of a pair goes with its last operator.
RemoveOperator_DropsPrice(st, origin, currency_pair, operator) ==
    LET root == EnsureRoot(origin)
        stored_pair == TryFromPair(currency_pair, MaxSymbolBytesLen) IN
    IF ~root.ok THEN Failed(st, root.err)
    ELSE IF ~stored_pair.ok THEN Failed(st, DispatchErrorFrom(stored_pair.err))
    ELSE IF <<stored_pair.val, operator>> \in st.operators
    THEN LET ops == st.operators \ {<<stored_pair.val, operator>>} IN
         Outcome(Ok(<<>>),
                 ops,
                 IF \E o \in ops : o[1] = stored_pair.val
                 THEN st.prices
                 ELSE [k \in DOMAIN st.prices \ {stored_pair.val} |-> st.prices[k]],
                 <<[event |-> "OperatorRemoved", pair |-> stored_pair.val,
                    account |-> operator]>>)
    ELSE Failed(st, Module("OperatorDoesNotExist"))

\* Pallet::remove_operator
RemoveOperator(st, origin, currency_pair, operator) ==
    LET root == EnsureRoot(origin) IN
    IF ~root.ok THEN Failed(st, root.err)
    ELSE LET stored_pair == TryFromPair(currency_pair, MaxSymbolBytesLen) IN
         IF ~stored_pair.ok THEN Failed(st, DispatchErrorFrom(stored_pair.err))
         ELSE IF <<stored_pair.val, operator>> \in st.operators
         THEN Outcome(Ok(<<>>),
                      st.operators \ {<<stored_pair.val, operator>>},
                      st.prices,
                      <<[event |-> "OperatorRemoved", pair |-> stored_pair.val,
                         account |-> operator]>>)
         ELSE Failed(st, Module("OperatorDoesNotExist"))

\* Mutant: the pair is looked up without being validated.
PairPrice_Unvalidated(prs, currency_pair) ==
    Ok(Price(prs, NewPair([inner |-> currency_pair.from, max |-> MaxSymbolBytesLen],
                          [inner |-> currency_pair.to, max |-> MaxSymbolBytesLen])))

\* <Pallet as PriceProvider>::pair_price
PairPrice(prs, currency_pair) ==
    LET stored_pair == TryFromPair(currency_pair, MaxSymbolBytesLen) IN
    IF stored_pair.ok THEN Ok(Price(prs, stored_pair.val)) ELSE stored_pair


\* currency_pair.rs: StaticCurrencySymbolPair<From, To>, a pair fixed in
\* the types, and its Get implementation
StaticCurrencySymbolPair(From, To) == [From |-> From, To |-> To]

StaticGet(P) == NewPair(P.From, P.To)

\* Mutant: the provider's pair is the fixed pair reversed.
StaticProviderPair_Reversed(P) == NewPair(P.To, P.From)

\* libs/price-provider/src/lib.rs: StaticPriceProvider::pair
StaticProviderPair(P) == StaticGet(P)

\* StaticPriceProvider::price: Self::pair_price(Self::pair())
StaticProviderPrice(prs, P) == PairPrice(prs, StaticProviderPair(P))

----------------------------------------------------------------------------
(* The pallet in a running chain: calls are dispatched, prices are read,   *)
(* blocks go by.                                                           *)

DOCKSym == <<68, 79, 67, 75>>

USDSym == <<85, 83, 68>>

LARGESym == <<65, 66, 67, 68, 69>>

\* The pairs the calls are made with: a pair, the same pair reversed, and
\* two pairs with one symbol too long.
PalletPairs ==
    {NewPair(DOCKSym, USDSym), NewPair(USDSym, DOCKSym),
     NewPair(LARGESym, USDSym), NewPair(USDSym, LARGESym)}

\* The pairs fixed in types.
StaticPairs ==
    {StaticCurrencySymbolPair(DOCKSym, USDSym),
     StaticCurrencySymbolPair(LARGESym, USDSym),
     StaticCurrencySymbolPair(USDSym, LARGESym)}

Accounts == {1, 2}

Origins == {Root, Unsigned} \cup {Signed(a) : a \in Accounts}

\* The pairs the dispatched calls are made with.
CallPairs == PalletPairs \ {NewPair(USDSym, LARGESym)}

\* The price set: 10 with one decimal, as in tests::set_price.
PriceInputs == {[price |-> Digits(10), decimals |-> 1]}

\* The storage a call runs on.
Storage == [operators |-> operators, prices |-> prices, now |-> now]

\* A call was dispatched on input and left outcome o.
Dispatched(op, input, o) ==
    /\ last' = op
    /\ arg' = Some(input)
    /\ out' = o.result
    /\ operators' = o.operators
    /\ prices' = o.prices
    /\ events' = o.events

\* PriceFeedModule::set_price(origin, pair, price, decimals)
SetPriceStep ==
    /\ \E origin \in Origins, pair \in CallPairs, p \in PriceInputs :
            Dispatched("set_price", [origin |-> origin, pair |-> pair, price |-> p],
                       SetPrice(Storage, origin, pair, p.price, p.decimals))
    /\ UNCHANGED <<ceil, bval, wire, calls, now, version, v1store>>

\* PriceFeedModule::add_operator(origin, pair, operator)
AddOperatorStep ==
    /\ \E origin \in Origins, pair \in CallPairs, operator \in Accounts :
            Dispatched("add_operator",
                       [origin |-> origin, pair |-> pair, operator |-> operator],
                       AddOperator(Storage, origin, pair, operator))
    /\ UNCHANGED <<ceil, bval, wire, calls, now, version, v1store>>

\* PriceFeedModule::remove_operator(origin, pair, operator)
RemoveOperatorStep ==
    /\ \E origin \in Origins, pair \in CallPairs, operator \in Accounts :
            Dispatched("remove_operator",
                       [origin |-> origin, pair |-> pair, operator |-> operator],
                       RemoveOperator(Storage, origin, pair, operator))
    /\ UNCHANGED <<ceil, bval, wire, calls, now, version, v1store>>

\* A read: the price was asked through the provider's function.
Asked(op, input, r) ==
    /\ last' = op
    /\ arg' = Some(input)
    /\ out' = r

\* PriceFeedModule::pair_price(pair)
PairPriceStep ==
    /\ \E pair \in PalletPairs :
            Asked("pair_price", [pair |-> pair], PairPrice(prices, pair))
    /\ UNCHANGED <<ceil, bval, wire, calls, palletVars>>

\* <PriceFeedModule as StaticPriceProvider<Test, P>>::price(), and ::pair()
StaticPriceStep ==
    /\ \E P \in StaticPairs :
            Asked("static_price", [P |-> P, pair |-> StaticProviderPair(P)],
                  StaticProviderPrice(prices, P))
    /\ UNCHANGED <<ceil, bval, wire, calls, palletVars>>

\* The next block begins: the block number grows and the events of the
\* block before are gone.
NextBlockStep ==
    /\ now < MaxBlock
    /\ now' = now + 1
    /\ events' = <<>>
    /\ last' = "next_block"
    /\ arg' = None
    /\ out' = None
    /\ UNCHANGED <<ceil, bval, wire, calls, operators, prices, version, v1store>>

NextPallet ==
    \/ SetPriceStep
    \/ AddOperatorStep
    \/ RemoveOperatorStep
    \/ PairPriceStep
    \/ StaticPriceStep
    \/ NextBlockStep

SpecPallet == Init /\ [][NextPallet]_vars


----------------------------------------------------------------------------
(* Properties of the pallet. *)

\* Both symbols of the pair are at most MaxSymbolBytesLen bytes long.
WithinSymbolBound(pair) ==
    Len(pair.from) <= MaxSymbolBytesLen /\ Len(pair.to) <= MaxSymbolBytesLen

\* The storage key of a pair within the bound.
KeyOf(pair) ==
    NewPair([inner |-> pair.from, max |-> MaxSymbolBytesLen],
            [inner |-> pair.to, max |-> MaxSymbolBytesLen])

StoredKeys == {KeyOf(pair) : pair \in {p \in PalletPairs : WithinSymbolBound(p)}}

\* C18: pair_price(pair) returns Err(InvalidStringByteLen) exactly when the
\* from or the to symbol is longer than MaxSymbolBytesLen; within the bound
\* it returns Ok(None) as long as no price was stored for the pair and
\* Ok(Some(record)) from then on; and it changes no storage.
C18_PairPriceTotalRead ==
    /\ \A k \in StoredKeys : Price(prices, k) = None
    /\ [](last = "pair_price" =>
            LET pair == arg.val.pair IN
            /\ ~WithinSymbolBound(pair) <=> out = Err(InvalidStringByteLen)
            /\ WithinSymbolBound(pair) =>
                    /\ out.ok
                    /\ out.val.some <=> KeyOf(pair) \in DOMAIN prices
                    /\ out.val.some => out.val.val = prices[KeyOf(pair)])
    /\ [][/\ last' = "pair_price" => UNCHANGED <<operators, prices, events, now>>
          /\ \A k \in StoredKeys :
                /\ Price(prices, k).some => Price(prices', k).some
                /\ (~Price(prices, k).some /\ Price(prices', k).some) =>
                        /\ last' = "set_price"
                        /\ out'.ok
                        /\ KeyOf(arg'.val.pair) = k]_vars

C18_Witness ==
    /\ last = "pair_price"
    /\ arg.val.pair = NewPair(DOCKSym, USDSym)
    /\ out = Ok(Some(NewPriceRecord(Digits(10), 1, 1)))

\* C19: StaticPriceProvider::pair() is P::get(), and price() returns what
\* pair_price(P::get()) returns in that state: Ok(None) before a price is
\* stored for the fixed pair, Ok(Some(record)) after, and the length error
\* when a fixed symbol is longer than the bound.
C19_StaticProviderIsPairPrice ==
    last = "static_price" =>
        LET P == arg.val.P
            fixed == NewPair(P.From, P.To) IN
        /\ arg.val.pair = fixed
        /\ out = PairPrice(prices, fixed)
        /\ IF WithinSymbolBound(fixed)
           THEN out = Ok(Price(prices, KeyOf(fixed)))
           ELSE out = Err(InvalidStringByteLen)

C19_Witness ==
    /\ last = "static_price"
    /\ arg.val.P = StaticCurrencySymbolPair(DOCKSym, USDSym)
    /\ out.ok
    /\ out.val.some
    /\ out.val.val.amount = Digits(10)

\* C20: the stored price of a pair changes only by a set_price signed by
\* an account that is, when the call runs, a registered operator of that
\* very pair; a signer that is not (an operator of another pair, of the
\* reversed pair, never added, or removed) gets NotAnOperator.
C20_PriceAuthorization ==
    /\ [](last = "set_price" =>
            LET origin == arg.val.origin
                pair == arg.val.pair IN
            (origin.kind = "signed" /\ WithinSymbolBound(pair)) =>
                IF <<KeyOf(pair), origin.who>> \in operators
                THEN out = Ok(<<>>)
                ELSE out = Err(Module("NotAnOperator")))
    /\ [][\A k \in StoredKeys :
            Price(prices', k) # Price(prices, k) =>
                /\ last' = "set_price"
                /\ arg'.val.origin.kind = "signed"
                /\ KeyOf(arg'.val.pair) = k
                /\ <<k, arg'.val.origin.who>> \in operators]_vars

C20_Witness ==
    /\ last = "set_price"
    /\ arg.val.origin = Signed(2)
    /\ arg.val.pair = NewPair(USDSym, DOCKSym)
    /\ <<KeyOf(NewPair(DOCKSym, USDSym)), 2>> \in operators
    /\ KeyOf(NewPair(DOCKSym, USDSym)) \in DOMAIN prices
    /\ out = Err(Module("NotAnOperator"))


\* The (pair, account) entries the Operators map can hold.
OperatorKeys == StoredKeys \X Accounts

\* C21: whether an account is an operator of a pair changes only by an
\* add_operator or remove_operator call with Root origin naming that pair
\* and that account, which leaves every other entry as it was; either call
\* with an origin that is not Root fails with BadOrigin; and set_price
\* leaves the operators as they were.
C21_OperatorsOnlyByRoot ==
    /\ [](last \in {"add_operator", "remove_operator"} =>
            (arg.val.origin # Root => out = Err(BadOrigin)))
    /\ [][/\ last' = "set_price" => operators' = operators
          /\ \A e \in OperatorKeys :
                (e \in operators') # (e \in operators) =>
                    /\ last' = (IF e \in operators'
                                THEN "add_operator" ELSE "remove_operator")
                    /\ arg'.val.origin = Root
                    /\ out' = Ok(<<>>)
                    /\ e = <<KeyOf(arg'.val.pair), arg'.val.operator>>
                    /\ \A other \in OperatorKeys \ {e} :
                            (other \in operators') = (other \in operators)]_vars

\* A signed account was refused when it tried to remove a registered
\* operator, which is still registered next to another pair's operator.
C21_Witness ==
    /\ last = "remove_operator"
    /\ arg.val.origin = Signed(1)
    /\ arg.val.pair = NewPair(DOCKSym, USDSym)
    /\ arg.val.operator = 1
    /\ out = Err(BadOrigin)
    /\ operators = {<<KeyOf(NewPair(DOCKSym, USDSym)), 1>>,
                    <<KeyOf(NewPair(USDSym, DOCKSym)), 2>>}


\* The dispatchable calls of the pallet.
DispatchedCalls == {"set_price", "add_operator", "remove_operator"}

\* C22: a call that fails changes nothing: adding an account that is an
\* operator of the pair fails with OperatorIsAlreadyAdded, removing one that
\* is not fails with OperatorDoesNotExist, and after every failing
\* set_price, add_operator or remove_operator Operators and Prices are
\* exactly what they were before the call.
C22_FailedCallsChangeNothing ==
    [][/\ (last' \in DispatchedCalls /\ ~out'.ok) =>
                /\ operators' = operators
                /\ prices' = prices
       /\ (/\ last' \in {"add_operator", "remove_operator"}
           /\ arg'.val.origin = Root
           /\ WithinSymbolBound(arg'.val.pair)) =>
                LET e == <<KeyOf(arg'.val.pair), arg'.val.operator>> IN
                /\ (last' = "add_operator" /\ e \in operators) =>
                        out' = Err(Module("OperatorIsAlreadyAdded"))
                /\ (last' = "remove_operator" /\ e \notin operators) =>
                        out' = Err(Module("OperatorDoesNotExist"))]_vars

\* Root removed an account that is no operator of the pair any more: the
\* pair has a price, which only an operator can have set, and no operator.
C22_Witness ==
    /\ last = "remove_operator"
    /\ arg.val.origin = Root
    /\ arg.val.pair = NewPair(DOCKSym, USDSym)
    /\ out = Err(Module("OperatorDoesNotExist"))
    /\ KeyOf(NewPair(DOCKSym, USDSym)) \in DOMAIN prices
    /\ \A a \in Accounts : <<KeyOf(NewPair(DOCKSym, USDSym)), a>> \notin operators
    /\ operators # {}


\* C23: after a successful set_price(pair, price, decimals) in block n the
\* record stored for the pair is PriceRecord(price, decimals, n); pair_price
\* returns the stored record; and the record of a pair changes only by a
\* successful set_price on that pair, which puts the new record in its
\* place, so that a set_price on another pair leaves it as it was.
C23_LatestPriceWins ==
    /\ []((last = "set_price" /\ out.ok) =>
            Price(prices, KeyOf(arg.val.pair))
                = Some(NewPriceRecord(arg.val.price.price,
                                      arg.val.price.decimals, now)))
    /\ []((last = "pair_price" /\ WithinSymbolBound(arg.val.pair)) =>
            out = Ok(Price(prices, KeyOf(arg.val.pair))))
    /\ [][\A k \in StoredKeys :
            Price(prices', k) # Price(prices, k) =>
                /\ last' = "set_price"
                /\ out' = Ok(<<>>)
                /\ KeyOf(arg'.val.pair) = k
                /\ Price(prices', k)
                        = Some(NewPriceRecord(arg'.val.price.price,
                                              arg'.val.price.decimals, now))]_vars

\* The price set in block 0 is still returned in block 1, where the price
\* of the reversed pair has been set again.
C23_Witness ==
    /\ last = "pair_price"
    /\ now = 1
    /\ arg.val.pair = NewPair(USDSym, DOCKSym)
    /\ out = Ok(Some(NewPriceRecord(Digits(10), 1, 0)))
    /\ Price(prices, KeyOf(NewPair(DOCKSym, USDSym)))
            = Some(NewPriceRecord(Digits(10), 1, 1))


\* C28: no call deletes a price: a pair that has a record has one after every
\* step, add_operator and remove_operator leave Prices as it was, and in
\* every state pair_price returns Ok(Some(record)) for every pair that has a
\* record, whether or not the pair still has an operator.
C28_PricesNeverDeleted ==
    /\ [](\A pair \in PalletPairs :
            (WithinSymbolBound(pair) /\ KeyOf(pair) \in DOMAIN prices) =>
                PairPrice(prices, pair) = Ok(Some(prices[KeyOf(pair)])))
    /\ []((last = "pair_price" /\ WithinSymbolBound(arg.val.pair)
            /\ KeyOf(arg.val.pair) \in DOMAIN prices) =>
                (out.ok /\ out.val.some))
    /\ [][/\ DOMAIN prices \subseteq DOMAIN prices'
          /\ last' \in {"add_operator", "remove_operator"} => prices' = prices]_vars

\* The operator that set the price was removed, the pair has no operator
\* left, and the price it set is read.
C28_Witness ==
    /\ last = "pair_price"
    /\ arg.val.pair = NewPair(DOCKSym, USDSym)
    /\ operators = {}
    /\ out.ok
    /\ out.val.some
    /\ out.val.val.block_number = 0
    /\ now = 1


\* The dispatch error a symbol longer than the bound gives.
SymbolTooLong == Err(DispatchErrorFrom(InvalidStringByteLen))

\* C30: the checks run in a fixed order. set_price: the origin must be
\* signed, else BadOrigin; then the pair must be within the bound, else the
\* length error, also for a signer that is no operator; then the signer must
\* be an operator, else NotAnOperator. add_operator and remove_operator: the
\* origin must be Root, else BadOrigin, also for a pair beyond the bound;
\* then the pair must be within the bound, else the length error, with the
\* operators left as they were; then the membership error.
C30_ErrorPrecedence ==
    /\ [](last = "set_price" =>
            LET origin == arg.val.origin
                pair == arg.val.pair IN
            IF origin.kind # "signed" THEN out = Err(BadOrigin)
            ELSE IF ~WithinSymbolBound(pair) THEN out = SymbolTooLong
            ELSE IF <<KeyOf(pair), origin.who>> \notin operators
            THEN out = Err(Module("NotAnOperator"))
            ELSE out = Ok(<<>>))
    /\ [](last \in {"add_operator", "remove_operator"} =>
            LET origin == arg.val.origin
                pair == arg.val.pair IN
            IF origin # Root THEN out = Err(BadOrigin)
            ELSE IF ~WithinSymbolBound(pair) THEN out = SymbolTooLong
            ELSE out \in {Ok(<<>>),
                          Err(Module(IF last = "add_operator"
                                     THEN "OperatorIsAlreadyAdded"
                                     ELSE "OperatorDoesNotExist"))})
    /\ [][(last' \in DispatchedCalls /\ ~WithinSymbolBound(arg'.val.pair)) =>
                /\ operators' = operators
                /\ prices' = prices
                /\ events' = <<>>]_vars

\* A signed account that is no operator of any pair, while another account
\* is, set the price of a pair with a symbol beyond the bound and got the
\* length error.
C30_Witness ==
    /\ last = "set_price"
    /\ arg.val.origin = Signed(1)
    /\ arg.val.pair = NewPair(LARGESym, USDSym)
    /\ out = SymbolTooLong
    /\ operators # {}
    /\ \A o \in operators : o[2] # 1


----------------------------------------------------------------------------
(* libs/arith_utils/src/lib.rs: ceiling division of the primitive integers *)

\* The types impl_div_ceil! is invoked with that are modelled: the macro
\* body is the same for every type, the type gives the range.
ArithTypes == {"u8", "i8", "u16", "i16"}

IsSignedInt(ty) == ty \in {"i8", "i16"}

IntBits(ty) == IF ty \in {"u8", "i8"} THEN 8 ELSE 16

\* $type::MIN and $type::MAX
IntMin(ty) == IF IsSignedInt(ty) THEN -(2 ^ (IntBits(ty) - 1)) ELSE 0

IntMax(ty) ==
    IF IsSignedInt(ty) THEN 2 ^ (IntBits(ty) - 1) - 1 ELSE 2 ^ IntBits(ty) - 1

InRange(ty, v) == IntMin(ty) <= v /\ v <= IntMax(ty)

\* A call that returned v, as opposed to one that panicked.
Returned(v) == [returned |-> v]

Magnitude(v) == IF v < 0 THEN -v ELSE v

\* The / of the primitive integers rounds towards zero.
TruncDiv(a, b) ==
    LET q == Magnitude(a) \div Magnitude(b) IN
    IF (a < 0) = (b < 0) THEN q ELSE -q

\* The % of the primitive integers: the remainder has the dividend's sign.
TruncRem(a, b) == a - TruncDiv(a, b) * b

\* $type::checked_div
CheckedDivInt(ty, a, b) ==
    IF b = 0 \/ ~InRange(ty, TruncDiv(a, b)) THEN None ELSE Some(TruncDiv(a, b))

\* $type::checked_rem: None as well when the division overflows
CheckedRemInt(ty, a, b) ==
    IF b = 0 \/ ~InRange(ty, TruncDiv(a, b)) THEN None ELSE Some(TruncRem(a, b))

\* $type::checked_add
CheckedAddInt(ty, a, b) == IF InRange(ty, a + b) THEN Some(a + b) ELSE None

\* a + b in a build with overflow checks (it panics) or without (it wraps).
AddInt(ty, a, b, overflow_checks) ==
    IF InRange(ty, a + b) THEN Returned(a + b)
    ELSE IF overflow_checks THEN Panicked
    ELSE Returned(((a + b - IntMin(ty)) % (2 ^ IntBits(ty))) + IntMin(ty))

\* Mutant: one is added whenever the division leaves a remainder.
CheckedDivCeil_AnyRemainder(ty, self, other) ==
    LET quot == CheckedDivInt(ty, self, other)
        rem == CheckedRemInt(ty, self, other) IN
    IF ~quot.some THEN None
    ELSE IF ~rem.some THEN None
    ELSE IF rem.val # 0 THEN CheckedAddInt(ty, quot.val, 1)
    ELSE Some(quot.val)

\* DivCeil::checked_div_ceil
CheckedDivCeil(ty, self, other) ==
    LET quot == CheckedDivInt(ty, self, other) IN
    IF ~quot.some THEN None
    ELSE LET rem == CheckedRemInt(ty, self, other) IN
         IF ~rem.some THEN None
         ELSE IF (rem.val > 0 /\ other > 0) \/ (rem.val < 0 /\ other < 0)
         THEN CheckedAddInt(ty, quot.val, 1)
         ELSE Some(quot.val)

\* DivCeil::div_ceil: / and % panic when the divisor is zero and when the
\* division overflows, in every build.
DivCeil(ty, self, other, overflow_checks) ==
    IF other = 0 \/ ~InRange(ty, TruncDiv(self, other)) THEN Panicked
    ELSE LET quot == TruncDiv(self, other)
             rem == TruncRem(self, other) IN
         IF (rem > 0 /\ other > 0) \/ (rem < 0 /\ other < 0)
         THEN AddInt(ty, quot, 1, overflow_checks)
         ELSE Returned(quot)

\* The operands: every value of the 8 bit types, and of the 16 bit types the
\* values at the ends of the range and those of the tests.
Operands(ty) ==
    IF IntBits(ty) = 8 THEN IntMin(ty)..IntMax(ty)
    ELSE {v \in {IntMin(ty), IntMin(ty) + 1, -12, -11, -10, -9, -2, -1, 0, 1, 2,
                 9, 10, 11, 12, IntMax(ty) - 1, IntMax(ty)} : InRange(ty, v)}

\* self.checked_div_ceil(other)
CheckedDivCeilStep ==
    /\ Idle
    /\ \E ty \in ArithTypes : \E self \in Operands(ty), other \in Operands(ty) :
        /\ last' = "checked_div_ceil"
        /\ arg' = Some([ty |-> ty, self |-> self, other |-> other])
        /\ out' = CheckedDivCeil(ty, self, other)
    /\ UNCHANGED <<ceil, bval, wire, calls, palletVars>>

\* self.div_ceil(other), in a build with or without overflow checks
DivCeilStep ==
    /\ Idle
    /\ \E ty \in ArithTypes, overflow_checks \in BOOLEAN :
       \E self \in Operands(ty), other \in Operands(ty) :
        /\ last' = "div_ceil"
        /\ arg' = Some([ty |-> ty, self |-> self, other |-> other,
                        overflow_checks |-> overflow_checks])
        /\ out' = DivCeil(ty, self, other, overflow_checks)
    /\ UNCHANGED <<ceil, bval, wire, calls, palletVars>>

NextArith ==
    \/ CheckedDivCeilStep
    \/ DivCeilStep

SpecArith == Init /\ [][NextArith]_vars

\* q is the least integer not below a / b.
IsCeilingOf(q, a, b) ==
    IF b > 0 THEN (q - 1) * b < a /\ a <= q * b
    ELSE q * b <= a /\ a < (q - 1) * b

\* C24: checked_div_ceil(a, b) is None when b is zero and when the division
\* overflows (MIN / -1 of a signed type), and otherwise Some(q) with q the
\* ceiling of a / b, whatever the signs; and div_ceil(a, b) returns that q
\* whenever checked_div_ceil(a, b) is Some(q).
C24_CeilingDivision ==
    /\ last = "checked_div_ceil" =>
            LET ty == arg.val.ty
                a == arg.val.self
                b == arg.val.other IN
            IF b = 0 \/ (IsSignedInt(ty) /\ a = IntMin(ty) /\ b = -1)
            THEN out = None
            ELSE /\ out.some
                 /\ InRange(ty, out.val)
                 /\ IsCeilingOf(out.val, a, b)
                 /\ \A oc \in BOOLEAN : DivCeil(ty, a, b, oc) = Returned(out.val)
    /\ last = "div_ceil" =>
            LET checked == CheckedDivCeil(arg.val.ty, arg.val.self, arg.val.other) IN
            checked.some => out = Returned(checked.val)

\* -9 / 2 is -4 in i8.
C24_Witness ==
    /\ last = "checked_div_ceil"
    /\ arg.val = [ty |-> "i8", self |-> -9, other |-> 2]
    /\ out = Some(-4)


----------------------------------------------------------------------------
(* Conversions into the stored pair, in both generations of the library:   *)
(* libs/price-provider (BoundedCurrencySymbolPair) and libs/price_provider *)
(* (StoredCurrencySymbolPair).                                             *)

\* BoundedString::new as the fn item handed to translate_over_from and
\* translate_over_to, with a log of the strings it was called with.
LoggedNewFn(MaxBytesLen) ==
    [fn |-> "BoundedString::new", max |-> MaxBytesLen, seen |-> <<>>]

\* Mutant: both symbols are validated before the results are looked at.
TryFromPairCalls_Eager(pair, MaxSymBytesLen) == <<pair.from, pair.to>>

\* The strings BoundedString::new is called with, in order, by
\* <BoundedCurrencySymbolPair as TryFrom<CurrencySymbolPair>>::try_from:
\*   pair.translate_over_from(BoundedString::new)?
\*       .translate_over_to(BoundedString::new)
TryFromPairCalls(pair, MaxSymBytesLen) ==
    LET first == TranslateOverFrom(pair, LoggedNewFn(MaxSymBytesLen))
        log == Seen(TranslateOverFromClosure(pair, LoggedNewFn(MaxSymBytesLen))) IN
    IF ~first.ok THEN log
    ELSE log \o Seen(TranslateOverToClosure(first.val, LoggedNewFn(MaxSymBytesLen)))

\* libs/price_provider: StoredCurrencySymbol::max_encoded_len
StoredSymbolMaxEncodedLen(MaxBytesLen) == CompactLen(MaxBytesLen) + MaxBytesLen

\* libs/price_provider: StoredCurrencySymbol::new
StoredSymbolNew(sym, MaxBytesLen) ==
    IF EncodedSize(sym) <= StoredSymbolMaxEncodedLen(MaxBytesLen)
    THEN Some([sym |-> sym, max |-> MaxBytesLen])
    ELSE None

\* Option::zip
Zip(a, b) == IF a.some /\ b.some THEN Some(<<a.val, b.val>>) ELSE None

\* StoredCurrencySymbolPairError::InvalidSymbolByteLen
InvalidSymbolByteLen == "InvalidSymbolByteLen"

\* libs/price_provider:
\* <StoredCurrencySymbolPair as TryFrom<CurrencySymbolPair>>::try_from
StoredTryFromPair(pair, MaxSymBytesLen) ==
    LET zipped == Zip(StoredSymbolNew(pair.from, MaxSymBytesLen),
                      StoredSymbolNew(pair.to, MaxSymBytesLen)) IN
    IF zipped.some
    THEN Ok(NewPair(zipped.val[1], zipped.val[2]))
    ELSE Err(InvalidSymbolByteLen)

\* The symbols StoredCurrencySymbol::new is called with by that try_from:
\* both calls are made before zip looks at either result.
StoredTryFromPairCalls(pair, MaxSymBytesLen) == <<pair.from, pair.to>>

\* libs/price_provider: the derived
\* <StoredCurrencySymbolPair as Decode>::decode: the fields of the inner
\* CurrencySymbolPair in declaration order, each a StoredCurrencySymbol whose
\* derived decode reads sym: S and the zero-sized marker.
DecodeStoredPair(input, MaxSymBytesLen) ==
    LET from == DecodeString(input) IN
    IF ~from.ok THEN from
    ELSE LET to == DecodeString(from.val.rest) IN
         IF ~to.ok THEN to
         ELSE Ok([val |-> NewPair([sym |-> from.val.val, max |-> MaxSymBytesLen],
                                  [sym |-> to.val.val, max |-> MaxSymBytesLen]),
                  rest |-> to.val.rest])

\* libs/price_provider: the derived
\* <StoredCurrencySymbolPair as Deserialize>::deserialize, given what the
\* deserializer returned for the from and to strings.
DeserializeStoredPair(deserialized, MaxSymBytesLen) ==
    IF ~deserialized.ok THEN deserialized
    ELSE Ok(NewPair([sym |-> deserialized.val.from, max |-> MaxSymBytesLen],
                    [sym |-> deserialized.val.to, max |-> MaxSymBytesLen]))

\* A conversion of input with ceiling M returned r after the calls in log.
Converted(op, input, M, r, log) ==
    /\ last' = op
    /\ arg' = input
    /\ ceil' = M
    /\ out' = r
    /\ calls' = log

\* BoundedCurrencySymbolPair::<_, _, M>::try_from(pair), its calls of
\* BoundedString::new recorded
BoundedTryFromStep ==
    /\ Idle
    /\ \E p \in PairInputs, M \in Ceilings :
            Converted("bounded_pair_try_from", Some(p), M,
                      TryFromPair(p, M), TryFromPairCalls(p, M))
    /\ UNCHANGED <<bval, wire, palletVars>>

\* StoredCurrencySymbolPair::<_, _, M>::try_from(pair)
StoredTryFromStep ==
    /\ Idle
    /\ \E p \in PairInputs, M \in Ceilings :
            Converted("stored_pair_try_from", Some(p), M,
                      StoredTryFromPair(p, M), StoredTryFromPairCalls(p, M))
    /\ UNCHANGED <<bval, wire, palletVars>>

\* StoredCurrencySymbolPair::<String, String, M>::decode(&mut bytes)
StoredDecodeStep ==
    /\ Idle
    /\ \E w \in RawPairWires, M \in Ceilings :
        LET r == DecodeStoredPair(w, M) IN
        /\ Converted("stored_pair_decode", None, M,
                     IF r.ok THEN Ok(r.val.val) ELSE r, <<>>)
        /\ wire' = Some(w)
    /\ UNCHANGED <<bval, palletVars>>

\* StoredCurrencySymbolPair::<String, String, M>::deserialize(deserializer)
StoredDeserializeStep ==
    /\ Idle
    /\ \E M \in Ceilings,
          d \in {Ok(p) : p \in PairInputs} \cup {Err("invalid type")} :
            Converted("stored_pair_deserialize",
                      IF d.ok THEN Some(d.val) ELSE None, M,
                      DeserializeStoredPair(d, M), <<>>)
    /\ UNCHANGED <<bval, wire, palletVars>>

NextConvert ==
    \/ BoundedTryFromStep
    \/ StoredTryFromStep
    \/ StoredDecodeStep
    \/ StoredDeserializeStep

SpecConvert == Init /\ [][NextConvert]_vars

\* The symbol's encoding fits the ceiling M.
Fits(sym, M) == EncodedSize(sym) <= CompactLen(M) + M

\* C25: BoundedCurrencySymbolPair::try_from validates from first; when from
\* exceeds the ceiling, to is never validated; when from fits, to is
\* validated next; and the error is the one InvalidStringByteLen value
\* whichever symbol failed.
C25_FromValidatedFirst ==
    last = "bounded_pair_try_from" =>
        LET from == arg.val.from
            to == arg.val.to IN
        /\ Len(calls) >= 1
        /\ calls[1] = from
        /\ ~Fits(from, ceil) => (calls = <<from>> /\ out = Err(InvalidStringByteLen))
        /\ Fits(from, ceil) => calls = <<from, to>>
        /\ (Fits(from, ceil) /\ ~Fits(to, ceil)) => out = Err(InvalidStringByteLen)
        /\ (Fits(from, ceil) /\ Fits(to, ceil)) => out.ok

\* Neither symbol fits, and only from was validated.
C25_Witness ==
    /\ last = "bounded_pair_try_from"
    /\ ceil = 1
    /\ arg.val = NewPair(<<65, 65>>, <<66, 66>>)
    /\ calls = <<(<<65, 65>>)>>
    /\ out = Err(InvalidStringByteLen)


\* C26: every StoredCurrencySymbolPair obtained by decoding or deserializing
\* has both symbols within compact_size(MaxLen) + MaxLen encoded bytes:
\* input with a longer symbol is rejected, as try_from rejects it.
C26_DecodedStoredPairWithinBound ==
    (last \in {"stored_pair_decode", "stored_pair_deserialize"} /\ out.ok) =>
        /\ Fits(out.val.from.sym, ceil)
        /\ Fits(out.val.to.sym, ceil)
        /\ StoredTryFromPair(NewPair(out.val.from.sym, out.val.to.sym), ceil)
                = Ok(out.val)


\* C29: PriceRecord::new takes every decimals byte as it is; for a record
\* with decimals of 78 or more price_per_unit returns None, whatever the
\* amount, the unit amount (zero included) and the output type; for a record
\* with decimals of 77 or less the divisor 10^decimals fits 256 bits and
\* price_per_unit of the unit amount zero returns Some(0).
C29_DecimalsBeyond77 ==
    /\ last = "record_new" =>
            (out.some /\ out.val = arg.val.record
             /\ out.val.decimals \in DecimalsInputs)
    /\ last = "price_per_unit" =>
            LET record == arg.val.record
                unit_amount == arg.val.unit_amount IN
            /\ record.decimals >= 78 =>
                    (out = None /\ ~CheckedPowOfTen(record.decimals).some)
            /\ record.decimals <= 77 =>
                    /\ CheckedPowOfTen(record.decimals) = Some(Pow10(record.decimals))
                    /\ unit_amount.val = Digits(0) => out = Some(Digits(0))

\* A record of amount u64::MAX with 78 decimals gives no price for the unit
\* amount zero.
C29_Witness ==
    /\ last = "price_per_unit"
    /\ arg.val.record.decimals = 78
    /\ arg.val.record.amount = MaxOf("u64")
    /\ arg.val.unit_amount = Typed("i32", FALSE, Digits(0))
    /\ arg.val.O = "U256"
    /\ out = None


----------------------------------------------------------------------------
(* pallets/price-feed/src/lib.rs, pallets/price_feed/src/migrations.rs:    *)
(* the storage version and the migration from the V1 pallet.               *)

\* enum Releases
V1SinglePair == "V1SinglePair"

V2MultiPair == "V2MultiPair"

\* <Releases as Default>::default
DefaultRelease == V1SinglePair

\* StorageVersion::<T>::get(), a ValueQuery: the default when nothing is
\* stored
StorageVersionGet(raw) == IF raw.some THEN raw.val ELSE DefaultRelease

\* The four items of the V1 pallet with nothing stored.
NoV1Items ==
    [Price |-> None, ContractConfigStore |-> None,
     LastPriceUpdateAt |-> None, PriceUpdateFreq |-> None]

\* T::DbWeight::get().reads(r) + T::DbWeight::get().writes(w)
DbWeight(r, w) == [reads |-> r, writes |-> w]

\* What a hook leaves behind: the stored version, the V1 items, the storage
\* writes it made, in order, and the weight it returned.
Upgraded(ver, items, writes, weight) ==
    [version |-> ver, v1store |-> items, writes |-> writes, weight |-> weight]

\* migrations::v1::migrate_to_v2
MigrateToV2(st) ==
    Upgraded(Some(V2MultiPair), NoV1Items,
             <<"Price::kill", "ContractConfigStore::kill",
               "LastPriceUpdateAt::kill", "PriceUpdateFreq::kill",
               "StorageVersion::put">>,
             DbWeight(0, 5))

\* Mutant: the migration runs on every upgrade.
OnRuntimeUpgrade_Unconditional(st) ==
    LET migrated == MigrateToV2(st) IN
    [migrated EXCEPT !.weight = DbWeight(1 + @.reads, @.writes)]

\* Hooks::on_runtime_upgrade
OnRuntimeUpgrade(st) ==
    IF StorageVersionGet(st.version) = V1SinglePair
    THEN LET migrated == MigrateToV2(st) IN
         [migrated EXCEPT !.weight = DbWeight(1 + @.reads, @.writes)]
    ELSE Upgraded(st.version, st.v1store, <<>>, DbWeight(1, 0))

\* GenesisBuild::build
GenesisBuild(st) ==
    Upgraded(Some(V2MultiPair), st.v1store, <<"StorageVersion::put">>, DbWeight(0, 1))

\* What a chain that ran the V1 pallet may hold in the four items.
V1Stores ==
    [Price : {None, Some(0), Some(5), Some(1000)},
     ContractConfigStore : {None, Some("ContractConfig::default")},
     LastPriceUpdateAt : {None, Some(0), Some(1)},
     PriceUpdateFreq : {None, Some(0), Some(10)}]

\* The storage the hooks run on.
VersionedStorage == [version |-> version, v1store |-> v1store]

\* A hook ran and left r.
Hooked(op, input, r) ==
    /\ last' = op
    /\ arg' = input
    /\ out' = Some(r.weight)
    /\ calls' = r.writes
    /\ version' = r.version
    /\ v1store' = r.v1store

\* The chain starts with the genesis build of this pallet.
GenesisBuildStep ==
    /\ Idle
    /\ Hooked("genesis_build", None, GenesisBuild(VersionedStorage))
    /\ UNCHANGED <<ceil, bval, wire, operators, prices, now, events>>

\* The chain has been running the V1 pallet, which stored its items and no
\* storage version.
V1ChainStep ==
    /\ Idle
    /\ \E items \in V1Stores :
            Hooked("v1_chain", None, Upgraded(version, items, <<>>, DbWeight(0, 0)))
    /\ UNCHANGED <<ceil, bval, wire, operators, prices, now, events>>

\* A runtime upgrade: Hooks::on_runtime_upgrade runs.
OnRuntimeUpgradeStep ==
    /\ Hooked("on_runtime_upgrade", Some([read |-> StorageVersionGet(version)]),
              OnRuntimeUpgrade(VersionedStorage))
    /\ UNCHANGED <<ceil, bval, wire, operators, prices, now, events>>

NextUpgrade ==
    \/ GenesisBuildStep
    \/ V1ChainStep
    \/ OnRuntimeUpgradeStep
    \/ NextBlockStep

SpecUpgrade == Init /\ [][NextUpgrade]_vars

\* C27: on_runtime_upgrade runs migrate_to_v2 exactly when the storage
\* version reads V1SinglePair, which it does when nothing was written; after
\* the hook the four V1 items are absent and the stored version is
\* V2MultiPair; an upgrade of a chain whose stored version is V2MultiPair,
\* by an earlier upgrade or by the genesis build, writes nothing; and a
\* stored V2MultiPair stays.
C27_MigrationRunsOnce ==
    /\ [](last = "on_runtime_upgrade" =>
            /\ version = Some(V2MultiPair)
            /\ v1store = NoV1Items
            /\ (arg.val.read = V1SinglePair) <=> (calls # <<>>)
            /\ out.val = DbWeight(1, Len(calls)))
    /\ [][/\ last' = "on_runtime_upgrade" =>
                /\ arg'.val.read = StorageVersionGet(version)
                /\ (version = None) => arg'.val.read = V1SinglePair
                /\ (version = Some(V2MultiPair)) =>
                        /\ calls' = <<>>
                        /\ out'.val.writes = 0
                        /\ UNCHANGED <<version, v1store, operators, prices>>
          /\ (version = Some(V2MultiPair)) => version' = Some(V2MultiPair)]_vars

\* In block 1 the upgrade of a chain that ran the V1 pallet migrated.
C27_Witness ==
    /\ last = "on_runtime_upgrade"
    /\ now = 1
    /\ arg.val.read = V1SinglePair
    /\ Len(calls) = 5
    /\ version = Some(V2MultiPair)
    /\ v1store = NoV1Items

============================================================================
